---- MODULE Spec2Model ----
(***************************************************************************)
(* The document store of the teacher-training chatbot                      *)
(* (src/knowledge_store.py): two SQLite tables, documents and embeddings,  *)
(* written by add_document and clear inside one transaction each and read  *)
(* by get_all_documents, get_documents_by_source and search, each on a     *)
(* connection of its own.                                                  *)
(***************************************************************************)
EXTENDS Integers, Sequences, FiniteSets, TLC

VARIABLES documents, embeddings, lock, pc, tx, arg, doc_id, issued, added, out,
          rng, current_scenario, batch,
          categories, directory, processor, ollama, bot, simulator

\* documents, embeddings: the committed tables, rowid -> row
\* lock: the connection that holds SQLite's write lock, or "none"
\* pc, tx, arg, doc_id: per connection, where its write call stands, the
\*   tables as its open transaction sees them, the call's arguments and
\*   cursor.lastrowid
\* issued: the ids of the adds that committed, in commit order
\* added: id -> the arguments of the add that stored it, since the last clear
\* out: what the last step returned or raised to its caller
\* rng: the state of the random module's generator, shared by every caller
\* current_scenario: the scenario the application holds
\* batch: where process_all_files stands: the directory listing and the files
\*   still to process
\* categories: KnowledgeManager's in-memory lists, category -> texts
\* directory: the files of the knowledge base directory
\* processor: KnowledgeProcessor's index, documents and knowledge_summary
\* ollama: whether the language model server answers: "running", "stopped"
\* bot: TeacherTrainingBot's current_scenario and feedback_history
\* simulator: StudentSimulator's current_student, current_scenario and
\*   conversation_history
vars == <<documents, embeddings, lock, pc, tx, arg, doc_id, issued, added, out,
          rng, current_scenario, batch,
          categories, directory, processor, ollama, bot, simulator>>

\* the variables of the store
storeVars == <<documents, embeddings, lock, pc, tx, arg, doc_id, issued, added>>

\* the variables the store never touches
otherVars == <<rng, current_scenario, batch,
               categories, directory, processor, ollama, bot, simulator>>

\* the variables of the components beside the store and the evaluator
componentVars == <<categories, directory, processor, ollama, bot, simulator>>

(***************************************************************************)
(* Bounds and input sets.                                                  *)
(***************************************************************************)
\* committed add_document calls in one behaviour
MaxAdds == 2

\* the connections (callers) that use the store at the same time
Procs == {"p1", "p2"}

\* the files chunks come from, and the chunk texts
Files == {"notes.txt", "plan.json"}

Contents == {"alpha", "beta", "gamma"}

\* the texts search is asked about
Queries == {"alpha", "delta"}

\* search's k: 0, every corpus size, and one more than the largest corpus
Ks == 0 .. (MaxAdds + 1)

NoTx == [documents |-> <<>>, embeddings |-> <<>>]

NoArg == [content |-> "", source |-> "", chunk_type |-> "", metadata |-> <<>>,
          embedding |-> <<>>]

NoOut == [op |-> "none", ok |-> TRUE, at |-> "", val |-> <<>>, arg |-> <<>>]

\* the application holds no scenario yet (current_scenario = None)
NoScenario == [none |-> TRUE]

\* no batch ingestion has started
NoBatch == [state |-> "idle", listing |-> <<>>, queue |-> <<>>]

\* the categories KnowledgeManager.__init__ creates
CategoryNames == {"student_behavior", "teaching_strategies", "academic_content",
                  "developmental_psychology", "classroom_management"}

\* KnowledgeManager.__init__: every category list is empty
NoCategories == [c \in CategoryNames |-> <<>>]

\* KnowledgeProcessor.__init__: an empty index, no documents, a zero summary
NoProcessor ==
  [index |-> <<>>, documents |-> <<>>,
   knowledge_summary |->
     [total_documents |-> 0, categories |-> <<>>, key_concepts |-> <<>>,
      examples |-> <<>>]]

\* None
None == [none |-> TRUE]

\* TeacherTrainingBot.__init__ and StudentSimulator.__init__
NoBot == [current_scenario |-> None, feedback_history |-> <<>>]

NoSimulator ==
  [current_student |-> None, current_scenario |-> None,
   conversation_history |-> <<>>]

\* the components as their constructors leave them, the directory empty and
\* the language model server down
InitComponents ==
  /\ categories = NoCategories
  /\ directory = {}
  /\ processor = NoProcessor
  /\ ollama = "stopped"
  /\ bot = NoBot
  /\ simulator = NoSimulator

(***************************************************************************)
(* Small helpers.                                                          *)
(***************************************************************************)
Max(S) == CHOOSE x \in S : \A y \in S : y <= x

Min2(a, b) == IF a <= b THEN a ELSE b

\* the elements of a set of integers, ascending
RECURSIVE Ascending(_)
Ascending(S) ==
  IF S = {} THEN <<>>
  ELSE LET m == CHOOSE x \in S : \A y \in S : x <= y
       IN <<m>> \o Ascending(S \ {m})

(***************************************************************************)
(* Python values: the metadata dict and its str() / eval() round trip.     *)
(* A dict is the ordered sequence of its <<key, value>> pairs; a value is  *)
(* a str or an int.                                                        *)
(***************************************************************************)
PyStr(s) == [t |-> "str", s |-> s, n |-> 0]

PyInt(n) == [t |-> "int", s |-> "", n |-> n]

\* the integers whose literals eval reads back
Literals == 0 .. 9

\* str() in place of repr(): a str is written without its quotes
ReprUnquoted(v) ==
  IF v.t = "str" THEN [quoted |-> FALSE, lit |-> v.s]
  ELSE [quoted |-> FALSE, lit |-> ToString(v.n)]

\* repr(): a str is written quoted, an int as its digits
Repr(v) ==
  IF v.t = "str" THEN [quoted |-> TRUE, lit |-> v.s]
  ELSE [quoted |-> FALSE, lit |-> ToString(v.n)]

\* str(metadata): "{" repr(key) ": " repr(value) ", " ... "}"
StrDict(d) == [i \in DOMAIN d |-> <<Repr(PyStr(d[i][1])), Repr(d[i][2])>>]

\* a token eval cannot read (a bare name: NameError)
IsNumeral(lit) == \E n \in Literals : ToString(n) = lit

EvalOk(tok) == tok.quoted \/ IsNumeral(tok.lit)

\* eval of one literal
EvalTok(tok) ==
  IF tok.quoted THEN PyStr(tok.lit)
  ELSE PyInt(CHOOSE n \in Literals : ToString(n) = tok.lit)

\* eval(text) raises unless every token is a literal
EvalDictOk(text) == \A i \in DOMAIN text : EvalOk(text[i][1]) /\ EvalOk(text[i][2])

EvalDict(text) == [i \in DOMAIN text |-> <<EvalTok(text[i][1]).s, EvalTok(text[i][2])>>]

(***************************************************************************)
(* pickle of the embedding array.                                          *)
(***************************************************************************)
PickleDumps(v) == [proto |-> "pickle", shape |-> Len(v), data |-> v]

PickleLoads(b) == [i \in 1 .. b.shape |-> b.data[i]]

(***************************************************************************)
(* The callers' chunks: extract_text's drafts and the embedding provider.  *)
(***************************************************************************)
\* embedding_model.encode: deterministic, one vector per text
Encode(text) ==
  CASE text = "alpha" -> <<1, 0>>
    [] text = "beta" -> <<0, 1>>
    [] text = "gamma" -> <<-1, 1>>
    [] OTHER -> <<1, 1>>

FileType(f) == IF f = "notes.txt" THEN "txt" ELSE "structured"

SectionOf(c) == CASE c = "alpha" -> 1 [] c = "beta" -> 2 [] OTHER -> 3

\* extract_text's metadata for a chunk of file f
MetadataOf(f, c) ==
  IF FileType(f) = "txt"
  THEN << <<"source", PyStr(f)>>, <<"section", PyInt(SectionOf(c))>>,
          <<"type", PyStr("txt")>> >>
  ELSE << <<"source", PyStr(f)>>, <<"path", PyStr(ToString(SectionOf(c)))>>,
          <<"type", PyStr("structured")>> >>

\* the arguments add_to_knowledge_base passes to add_document
ChunkOf(f, c) ==
  [content |-> c, source |-> f, chunk_type |-> FileType(f),
   metadata |-> MetadataOf(f, c), embedding |-> Encode(c)]

Inputs == {ChunkOf(f, c) : f \in Files, c \in Contents}

(***************************************************************************)
(* SQLite: a table is a function from rowid to row.                        *)
(***************************************************************************)
\* INTEGER PRIMARY KEY without AUTOINCREMENT: one more than the largest rowid
NextRowId(tbl) == IF DOMAIN tbl = {} THEN 1 ELSE Max(DOMAIN tbl) + 1

\* INSERT OR REPLACE at the first rowid
InsertOrReplaceFirst(tbl, row) == (1 :> row) @@ tbl

InsertInto(tbl, row) == tbl @@ (NextRowId(tbl) :> row)

\* a connection in autocommit mode: what was written stays written
AfterRollbackKeepsWrites(p) == tx[p]

\* what the connection sees once its transaction is rolled back
AfterRollback(p) == [documents |-> documents, embeddings |-> embeddings]

\* what every connection sees once the transaction of p is committed
AfterCommit(p) == tx[p]

\* a read that sees the writer's uncommitted rows (read_uncommitted)
ReadViewUncommitted ==
  IF lock \in Procs THEN tx[lock]
  ELSE [documents |-> documents, embeddings |-> embeddings]

\* what a connection that holds no transaction reads: the committed tables
ReadView == [documents |-> documents, embeddings |-> embeddings]

\* INSERT INTO documents (content, source, chunk_type, metadata)
DocumentRow(c) ==
  [content |-> c.content, source |-> c.source, chunk_type |-> c.chunk_type,
   metadata |-> StrDict(c.metadata)]

\* INSERT INTO embeddings (document_id, embedding)
EmbeddingRow(id, c) == [document_id |-> id, embedding |-> PickleDumps(c.embedding)]

(***************************************************************************)
(* add_document: both INSERTs in one transaction, committed when the with  *)
(* block ends and rolled back when an exception leaves it.                 *)
(***************************************************************************)
\* the first INSERT committed at once, outside the transaction
AddBeginAutocommit(p, c) ==
  /\ pc[p] = "idle"
  /\ lock = "none"
  /\ Len(issued) < MaxAdds
  /\ lock' = p
  /\ documents' = InsertInto(documents, DocumentRow(c))
  /\ tx' = [tx EXCEPT ![p] = [documents |-> InsertInto(documents, DocumentRow(c)),
                              embeddings |-> embeddings]]
  /\ doc_id' = [doc_id EXCEPT ![p] = NextRowId(documents)]
  /\ arg' = [arg EXCEPT ![p] = c]
  /\ pc' = [pc EXCEPT ![p] = "doc_inserted"]
  /\ out' = NoOut
  /\ UNCHANGED <<embeddings, issued, added>>

\* the first INSERT opens the transaction and takes the write lock
AddBegin(p, c) ==
  /\ pc[p] = "idle"
  /\ lock = "none"
  /\ Len(issued) < MaxAdds
  /\ lock' = p
  /\ tx' = [tx EXCEPT ![p] = [documents |-> InsertInto(documents, DocumentRow(c)),
                              embeddings |-> embeddings]]
  /\ doc_id' = [doc_id EXCEPT ![p] = NextRowId(documents)]
  /\ arg' = [arg EXCEPT ![p] = c]
  /\ pc' = [pc EXCEPT ![p] = "doc_inserted"]
  /\ out' = NoOut
  /\ UNCHANGED <<documents, embeddings, issued, added>>

\* another connection holds the write lock: OperationalError, nothing written
AddBusy(p, c) ==
  /\ pc[p] = "idle"
  /\ lock \notin {"none", p}
  /\ out' = [op |-> "add", ok |-> FALSE, at |-> "locked", val |-> 0, arg |-> c]
  /\ UNCHANGED <<documents, embeddings, lock, pc, tx, arg, doc_id, issued, added>>

\* the second INSERT
AddEmbedding(p) ==
  /\ pc[p] = "doc_inserted"
  /\ tx' = [tx EXCEPT ![p].embeddings =
              InsertInto(tx[p].embeddings, EmbeddingRow(doc_id[p], arg[p]))]
  /\ pc' = [pc EXCEPT ![p] = "emb_inserted"]
  /\ out' = NoOut
  /\ UNCHANGED <<documents, embeddings, lock, arg, doc_id, issued, added>>

\* the with block ends: commit
AddCommit(p) ==
  /\ pc[p] = "emb_inserted"
  /\ documents' = AfterCommit(p).documents
  /\ embeddings' = AfterCommit(p).embeddings
  /\ lock' = "none"
  /\ tx' = [tx EXCEPT ![p] = NoTx]
  /\ pc' = [pc EXCEPT ![p] = "idle"]
  /\ issued' = Append(issued, doc_id[p])
  /\ added' = (doc_id[p] :> arg[p]) @@ added
  /\ out' = [op |-> "add", ok |-> TRUE, at |-> "", val |-> doc_id[p], arg |-> arg[p]]
  /\ arg' = [arg EXCEPT ![p] = NoArg]
  /\ doc_id' = [doc_id EXCEPT ![p] = 0]

\* an exception (or the end of the process) inside the with block, after the
\* first INSERT or after the second: rollback
AddFail(p) ==
  /\ pc[p] \in {"doc_inserted", "emb_inserted"}
  /\ documents' = AfterRollback(p).documents
  /\ embeddings' = AfterRollback(p).embeddings
  /\ lock' = "none"
  /\ tx' = [tx EXCEPT ![p] = NoTx]
  /\ pc' = [pc EXCEPT ![p] = "idle"]
  /\ out' = [op |-> "add", ok |-> FALSE, at |-> pc[p], val |-> doc_id[p], arg |-> arg[p]]
  /\ arg' = [arg EXCEPT ![p] = NoArg]
  /\ doc_id' = [doc_id EXCEPT ![p] = 0]
  /\ UNCHANGED <<issued, added>>

(***************************************************************************)
(* clear: both DELETEs in one transaction.                                 *)
(***************************************************************************)
\* DELETE FROM embeddings opens the transaction
ClearBegin(p) ==
  /\ pc[p] = "idle"
  /\ lock = "none"
  /\ lock' = p
  /\ tx' = [tx EXCEPT ![p] = [documents |-> documents, embeddings |-> <<>>]]
  /\ pc' = [pc EXCEPT ![p] = "emb_deleted"]
  /\ out' = NoOut
  /\ UNCHANGED <<documents, embeddings, arg, doc_id, issued, added>>

ClearBusy(p) ==
  /\ pc[p] = "idle"
  /\ lock \notin {"none", p}
  /\ out' = [op |-> "clear", ok |-> FALSE, at |-> "locked", val |-> 0, arg |-> <<>>]
  /\ UNCHANGED <<documents, embeddings, lock, pc, tx, arg, doc_id, issued, added>>

\* clear without its second DELETE
ClearDocumentsSkipped(p) ==
  /\ pc[p] = "emb_deleted"
  /\ pc' = [pc EXCEPT ![p] = "docs_deleted"]
  /\ out' = NoOut
  /\ UNCHANGED <<documents, embeddings, lock, tx, arg, doc_id, issued, added>>

\* DELETE FROM documents
ClearDocuments(p) ==
  /\ pc[p] = "emb_deleted"
  /\ tx' = [tx EXCEPT ![p].documents = <<>>]
  /\ pc' = [pc EXCEPT ![p] = "docs_deleted"]
  /\ out' = NoOut
  /\ UNCHANGED <<documents, embeddings, lock, arg, doc_id, issued, added>>

ClearCommit(p) ==
  /\ pc[p] = "docs_deleted"
  /\ documents' = AfterCommit(p).documents
  /\ embeddings' = AfterCommit(p).embeddings
  /\ lock' = "none"
  /\ tx' = [tx EXCEPT ![p] = NoTx]
  /\ pc' = [pc EXCEPT ![p] = "idle"]
  /\ added' = <<>>
  /\ out' = [op |-> "clear", ok |-> TRUE, at |-> "",
             val |-> Cardinality(DOMAIN documents) + Cardinality(DOMAIN embeddings),
             arg |-> <<>>]
  /\ UNCHANGED <<arg, doc_id, issued>>

ClearFail(p) ==
  /\ pc[p] \in {"emb_deleted", "docs_deleted"}
  /\ documents' = AfterRollback(p).documents
  /\ embeddings' = AfterRollback(p).embeddings
  /\ lock' = "none"
  /\ tx' = [tx EXCEPT ![p] = NoTx]
  /\ pc' = [pc EXCEPT ![p] = "idle"]
  /\ out' = [op |-> "clear", ok |-> FALSE, at |-> pc[p], val |-> 0, arg |-> <<>>]
  /\ UNCHANGED <<arg, doc_id, issued, added>>

(***************************************************************************)
(* The reads: one SELECT each, on a connection of its own.                 *)
(***************************************************************************)
\* FROM documents d JOIN embeddings e ON d.id = e.document_id: SQLite scans
\* e in rowid order and looks d up by its primary key
JoinRows(db) ==
  LET Joined(eid) == db.embeddings[eid].document_id \in DOMAIN db.documents
      Row(eid) ==
        LET did == db.embeddings[eid].document_id
        IN [id |-> did, doc |-> db.documents[did],
            embedding |-> db.embeddings[eid].embedding]
      scan == Ascending({eid \in DOMAIN db.embeddings : Joined(eid)})
  IN [i \in DOMAIN scan |-> Row(scan[i])]

\* FROM documents d WHERE d.source = ?: a scan of d in rowid order
SourceRows(db, source) ==
  LET Match(did) == db.documents[did].source = source
      Row(did) == [id |-> did, doc |-> db.documents[did]]
      scan == Ascending({did \in DOMAIN db.documents : Match(did)})
  IN [i \in DOMAIN scan |-> Row(scan[i])]

\* get_all_documents' result for one row
AllRecord(r) ==
  [id |-> r.id, content |-> r.doc.content, source |-> r.doc.source,
   chunk_type |-> r.doc.chunk_type, metadata |-> EvalDict(r.doc.metadata),
   embedding |-> PickleLoads(r.embedding)]

\* get_documents_by_source's result for one row
SourceRecord(r) ==
  [id |-> r.id, content |-> r.doc.content, chunk_type |-> r.doc.chunk_type,
   metadata |-> EvalDict(r.doc.metadata)]

RowsEvalOk(rows) == \A i \in DOMAIN rows : EvalDictOk(rows[i].doc.metadata)

get_all_documents(db) ==
  LET rows == JoinRows(db) IN [i \in DOMAIN rows |-> AllRecord(rows[i])]

get_documents_by_source(db, source) ==
  LET rows == SourceRows(db, source) IN [i \in DOMAIN rows |-> SourceRecord(rows[i])]

(***************************************************************************)
(* search: cosine similarity, a stable descending sort, the first k.       *)
(***************************************************************************)
RECURSIVE DotFrom(_, _, _)
DotFrom(a, b, i) == IF i > Len(a) THEN 0 ELSE a[i] * b[i] + DotFrom(a, b, i + 1)

\* np.dot of two vectors of one length
Dot(a, b) == DotFrom(a, b, 1)

\* np.dot(q, v) / (norm(q) * norm(v)), kept exact: dot / sqrt(norms2)
Similarity(q, v) == [dot |-> Dot(q, v), norms2 |-> Dot(q, q) * Dot(v, v)]

SignedSquare(x) == IF x >= 0 THEN x * x ELSE 0 - x * x

\* a < b for two similarities with non-zero norms
SimLess(a, b) == SignedSquare(a.dot) * b.norms2 < SignedSquare(b.dot) * a.norms2

\* a sort that is not stable: x goes before the elements equal to it
InsertAtBeforeEqual(s, x) ==
  IF \E i \in DOMAIN s : ~SimLess(x.similarity, s[i].similarity)
  THEN CHOOSE i \in DOMAIN s :
         /\ ~SimLess(x.similarity, s[i].similarity)
         /\ \A j \in 1 .. (i - 1) : SimLess(x.similarity, s[j].similarity)
  ELSE Len(s) + 1

\* where the stable descending sort puts x among the sorted s: after every
\* element that is not smaller
InsertAt(s, x) ==
  IF \E i \in DOMAIN s : SimLess(s[i].similarity, x.similarity)
  THEN CHOOSE i \in DOMAIN s :
         /\ SimLess(s[i].similarity, x.similarity)
         /\ \A j \in 1 .. (i - 1) : ~SimLess(s[j].similarity, x.similarity)
  ELSE Len(s) + 1

\* the sort left out
SortOmitted(s) == s

RECURSIVE SortBySimilarity(_)
\* results.sort(key=similarity, reverse=True)
SortBySimilarity(s) ==
  IF Len(s) <= 1 THEN s
  ELSE LET front == SortBySimilarity(SubSeq(s, 1, Len(s) - 1))
           x == s[Len(s)]
           i == InsertAt(front, x)
       IN SubSeq(front, 1, i - 1) \o <<x>> \o SubSeq(front, i, Len(front))

\* results[:k - 1]
TopKMinusOne(s, k) ==
  IF k = 0 THEN SubSeq(s, 1, Len(s) - 1) ELSE SubSeq(s, 1, Min2(k - 1, Len(s)))

\* results[:k] for k >= 0
TopK(s, k) == SubSeq(s, 1, Min2(k, Len(s)))

search(db, q, k) ==
  LET Result(r) ==
        [id |-> r.id, content |-> r.doc.content, source |-> r.doc.source,
         chunk_type |-> r.doc.chunk_type, metadata |-> EvalDict(r.doc.metadata),
         similarity |-> Similarity(q, PickleLoads(r.embedding))]
      rows == JoinRows(db)
      results == [i \in DOMAIN rows |-> Result(rows[i])]
  IN TopK(SortBySimilarity(results), k)

(***************************************************************************)
(* The read calls: each returns its result, or raises when eval does.      *)
(***************************************************************************)
Returns(p, op, a, ok, v) ==
  /\ pc[p] = "idle"
  /\ out' = [op |-> op, ok |-> ok, at |-> "", val |-> IF ok THEN v ELSE <<>>, arg |-> a]
  /\ UNCHANGED <<documents, embeddings, lock, pc, tx, arg, doc_id, issued, added>>

GetAll(p) ==
  Returns(p, "get_all", <<>>, RowsEvalOk(JoinRows(ReadView)), get_all_documents(ReadView))

GetBySource(p, source) ==
  Returns(p, "get_by_source", <<source>>, RowsEvalOk(SourceRows(ReadView, source)),
          get_documents_by_source(ReadView, source))

Search(p, query, k) ==
  Returns(p, "search", <<query, k>>, RowsEvalOk(JoinRows(ReadView)),
          search(ReadView, Encode(query), k))

(***************************************************************************)
(* The specification.                                                      *)
(***************************************************************************)
\* _init_db on a new database file: both tables exist and are empty
Init ==
  /\ documents = <<>>
  /\ embeddings = <<>>
  /\ lock = "none"
  /\ pc = [p \in Procs |-> "idle"]
  /\ tx = [p \in Procs |-> NoTx]
  /\ arg = [p \in Procs |-> NoArg]
  /\ doc_id = [p \in Procs |-> 0]
  /\ issued = <<>>
  /\ added = <<>>
  /\ out = NoOut
  /\ rng = 0
  /\ current_scenario = NoScenario
  /\ batch = NoBatch
  /\ InitComponents

Next ==
  \/ \E p \in Procs, c \in Inputs : AddBegin(p, c) /\ UNCHANGED otherVars
  \/ \E p \in Procs, c \in Inputs : AddBusy(p, c) /\ UNCHANGED otherVars
  \/ \E p \in Procs : AddEmbedding(p) /\ UNCHANGED otherVars
  \/ \E p \in Procs : AddCommit(p) /\ UNCHANGED otherVars
  \/ \E p \in Procs : AddFail(p) /\ UNCHANGED otherVars
  \/ \E p \in Procs : ClearBegin(p) /\ UNCHANGED otherVars
  \/ \E p \in Procs : ClearBusy(p) /\ UNCHANGED otherVars
  \/ \E p \in Procs : ClearDocuments(p) /\ UNCHANGED otherVars
  \/ \E p \in Procs : ClearCommit(p) /\ UNCHANGED otherVars
  \/ \E p \in Procs : ClearFail(p) /\ UNCHANGED otherVars
  \/ \E p \in Procs : GetAll(p) /\ UNCHANGED otherVars
  \/ \E p \in Procs, f \in Files : GetBySource(p, f) /\ UNCHANGED otherVars
  \/ \E p \in Procs, q \in Queries, k \in Ks : Search(p, q, k) /\ UNCHANGED otherVars

Spec == Init /\ [][Next]_vars

(***************************************************************************)
(* What the claims speak of.                                               *)
(***************************************************************************)
\* the embeddings rows that reference document id
EmbeddingsOf(id) == {e \in DOMAIN embeddings : embeddings[e].document_id = id}

Ids(records) == {records[i].id : i \in DOMAIN records}

ReadOps == {"get_all", "get_by_source", "search"}

\* an add_document call of p has written and neither committed nor rolled back
InFlightAdd(p) == pc[p] \in {"doc_inserted", "emb_inserted"}

\* the committed tables hold exactly the chunks of the completed adds
HoldsExactlyAdded ==
  /\ DOMAIN documents = DOMAIN added
  /\ \A id \in DOMAIN added :
       /\ documents[id] = DocumentRow(added[id])
       /\ \E e \in DOMAIN embeddings : embeddings[e] = EmbeddingRow(id, added[id])

(***************************************************************************)
(* C1. Whatever add_document and clear calls ran, completed or failed      *)
(* part-way, every documents row has exactly one embeddings row that       *)
(* references it and every embeddings row references a documents row.      *)
(***************************************************************************)
C1_OneEmbeddingPerDocument ==
  /\ \A id \in DOMAIN documents : Cardinality(EmbeddingsOf(id)) = 1
  /\ \A e \in DOMAIN embeddings : embeddings[e].document_id \in DOMAIN documents

\* an add failed between its two INSERTs while the store held a chunk
C1_Witness ==
  /\ out.op = "add" /\ ~out.ok /\ out.at = "doc_inserted"
  /\ documents # <<>>

(***************************************************************************)
(* C2. An add_document call that fails after its document row was          *)
(* inserted and before its embedding row was leaves a document that no     *)
(* read returns, and the store holds exactly the chunks whose add had      *)
(* completed.                                                              *)
(***************************************************************************)
C2_FailedAddLeavesNoTrace ==
  (out.op = "add" /\ ~out.ok /\ out.at = "doc_inserted") =>
    /\ HoldsExactlyAdded
    /\ out.val \notin Ids(get_all_documents(ReadView))
    /\ \A f \in Files : out.val \notin Ids(get_documents_by_source(ReadView, f))
    /\ \A q \in Queries, k \in Ks : out.val \notin Ids(search(ReadView, Encode(q), k))
    /\ Ids(get_all_documents(ReadView)) = DOMAIN added

\* the second chunk of a file failed after the first was stored
C2_Witness ==
  /\ out.op = "add" /\ ~out.ok /\ out.at = "doc_inserted"
  /\ \E id \in DOMAIN added : added[id].source = out.arg.source

(***************************************************************************)
(* C3. The id given to each newly added chunk is greater than every id     *)
(* given before it, so no id is used twice, also across a clear.           *)
(***************************************************************************)
C3_IdsStrictlyIncrease ==
  \A i, j \in DOMAIN issued : i < j => issued[i] < issued[j]

(***************************************************************************)
(* C4. A read that runs while add_document calls are in progress returns,  *)
(* for each add, the document together with its embedding or not at all:   *)
(* every returned document is committed with its one embedding, and none   *)
(* is the document of an add still in progress.                            *)
(***************************************************************************)
C4_ReadsSeeBothOrNeither ==
  (out.op \in ReadOps /\ out.ok) =>
    \A id \in Ids(out.val) :
      /\ id \in DOMAIN documents
      /\ Cardinality(EmbeddingsOf(id)) = 1
      /\ \A p \in Procs : InFlightAdd(p) => id # doc_id[p]

\* get_documents_by_source returned chunks of the file whose next chunk is
\* inserted and not yet committed
C4_Witness ==
  /\ out.op = "get_by_source" /\ out.ok /\ out.val # <<>>
  /\ \E p \in Procs : pc[p] = "doc_inserted" /\ arg[p].source = out.arg[1]

(***************************************************************************)
(* C5. search(q, k) returns min(k, number of stored chunks) results for    *)
(* every k >= 0: the whole corpus when k is larger, an empty sequence and  *)
(* no error when the store is empty.                                       *)
(***************************************************************************)
C5_SearchLength ==
  out.op = "search" =>
    /\ out.ok
    /\ Len(out.val) = Min2(out.arg[2], Cardinality(DOMAIN documents))

\* k exceeds the size of a store that is not empty
C5_Witness ==
  /\ out.op = "search"
  /\ documents # <<>>
  /\ out.arg[2] > Cardinality(DOMAIN documents)

(***************************************************************************)
(* C6. Chunks of equal similarity to the query are returned by search in   *)
(* ascending order of chunk id.                                            *)
(***************************************************************************)
SimEqual(a, b) == ~SimLess(a, b) /\ ~SimLess(b, a)

C6_TiesByAscendingId ==
  (out.op = "search" /\ out.ok) =>
    \A i, j \in DOMAIN out.val :
      (i < j /\ SimEqual(out.val[i].similarity, out.val[j].similarity))
        => out.val[i].id < out.val[j].id

\* two chunks of different text tie
C6_Witness ==
  /\ out.op = "search" /\ out.ok
  /\ \E i, j \in DOMAIN out.val :
       /\ i < j
       /\ out.val[i].content # out.val[j].content
       /\ SimEqual(out.val[i].similarity, out.val[j].similarity)

(***************************************************************************)
(* C7. The sequence search returns is ordered by non-increasing            *)
(* similarity, holds no chunk id twice, and every id in it is that of a    *)
(* stored chunk.                                                           *)
(***************************************************************************)
C7_SearchOrderedDistinctStored ==
  (out.op = "search" /\ out.ok) =>
    /\ \A i, j \in DOMAIN out.val :
         i < j => ~SimLess(out.val[i].similarity, out.val[j].similarity)
    /\ \A i, j \in DOMAIN out.val : i # j => out.val[i].id # out.val[j].id
    /\ Ids(out.val) \subseteq DOMAIN documents

\* the chunk stored later is the more similar one and comes first
C7_Witness ==
  /\ out.op = "search" /\ out.ok /\ Len(out.val) >= 2
  /\ out.val[1].id > out.val[2].id
  /\ SimLess(out.val[2].similarity, out.val[1].similarity)

(***************************************************************************)
(* C8. For every chunk added with add_document, get_all_documents and      *)
(* get_documents_by_source (asked for the chunk's source) return a record  *)
(* that carries its content, source, chunk_type and metadata as they were  *)
(* added, together with the embedding that was added.                      *)
(***************************************************************************)
\* the fields of record r that the claim names are those of the added chunk a
CarriesAll(r, a) ==
  /\ {"content", "source", "chunk_type", "metadata", "embedding"} \subseteq DOMAIN r
  /\ r.content = a.content
  /\ r.source = a.source
  /\ r.chunk_type = a.chunk_type
  /\ r.metadata = a.metadata
  /\ r.embedding = a.embedding

C9_ClearEmptiesBothTables ==
  /\ (out.op = "clear" /\ out.ok) =>
       /\ documents = <<>> /\ embeddings = <<>>
       /\ get_all_documents(ReadView) = <<>>
       /\ \A f \in Files : get_documents_by_source(ReadView, f) = <<>>
       /\ \A q \in Queries, k \in Ks : search(ReadView, Encode(q), k) = <<>>
  /\ (documents = <<>>) <=> (embeddings = <<>>)
  /\ (out.op = "clear" /\ ~out.ok) => HoldsExactlyAdded

\* clear returned after deleting rows
C9_Witness == out.op = "clear" /\ out.ok /\ out.val > 0

(***************************************************************************)
(* C10. A stored chunk never changes and only clear removes it: every step *)
(* keeps each documents row and each embeddings row as it was, or is a     *)
(* clear that empties both tables.                                         *)
(***************************************************************************)
RowsKept ==
  /\ \A id \in DOMAIN documents :
       id \in DOMAIN documents' /\ documents'[id] = documents[id]
  /\ \A e \in DOMAIN embeddings :
       e \in DOMAIN embeddings' /\ embeddings'[e] = embeddings[e]

C10_ChunksImmutable ==
  [][RowsKept \/ (out'.op = "clear" /\ out'.ok /\ documents' = <<>> /\ embeddings' = <<>>)]_vars

\* an add committed into a store that already held a chunk
C10_Witness ==
  /\ out.op = "add" /\ out.ok
  /\ Cardinality(DOMAIN documents) >= 2

(***************************************************************************)
(* The rule-based evaluator, TeacherTrainingChatbot.evaluate_response      *)
(* (src/chatbot.py).  A text is the sequence of its words; a score is      *)
(* counted in hundredths: every sum of 0.2, 0.2, 0.3 and 0.3 the code can  *)
(* form, added in its order, is the double nearest to the decimal sum, so  *)
(* the comparisons with 0.4, 0.8 and 1.0 come out as on whole hundredths.  *)
(***************************************************************************)
\* states of the random module's generator
RngPeriod == 6

RngStates == 0 .. (RngPeriod - 1)

\* one draw moves the generator to its next state
Advance(g) == (g + 1) % RngPeriod

\* random.choice(seq) in generator state g
RandomChoice(g, seq) == seq[(g % Len(seq)) + 1]

\* str.lower on one word
Lower(w) ==
  CASE w = "Watch" -> "watch"
    [] w = "Let's" -> "let's"
    [] w = "SOUND" -> "sound"
    [] w = "Good" -> "good"
    [] w = "Well" -> "well"
    [] OTHER -> w

\* teacher_response.lower()
LowerText(text) == [i \in DOMAIN text |-> Lower(text[i])]

\* phrase in text
Contains(text, phrase) ==
  \E i \in 0 .. (Len(text) - Len(phrase)) :
    \A j \in 1 .. Len(phrase) : text[i + j] = phrase[j]

\* any(strategy in teacher_response.lower() for strategy in strategies)
AnyIn(strategies, teacher_response) ==
  \E i \in DOMAIN strategies : Contains(LowerText(teacher_response), strategies[i])

time_strategies ==
  ("morning" :>
     [strategies |-> << <<"morning", "routine">>, <<"clear", "expectations">>,
                        <<"structured", "start">> >>,
      explanation |-> <<"Morning is ideal for setting clear expectations">>]) @@
  ("after lunch" :>
     [strategies |-> << <<"movement", "break">>, <<"active", "learning">>,
                        <<"energy", "release">> >>,
      explanation |-> <<"After lunch, students need movement">>]) @@
  ("late afternoon" :>
     [strategies |-> << <<"short", "tasks">>, <<"varied", "activities">>,
                        <<"brain", "breaks">> >>,
      explanation |-> <<"Late afternoon requires shorter, varied tasks">>])

style_strategies ==
  ("visual" :>
     [strategies |-> << <<"look", "at">>, <<"watch">>, <<"see">>, <<"show">>,
                        <<"draw">> >>,
      explanation |-> <<"Visual learners need to see concepts represented">>]) @@
  ("auditory" :>
     [strategies |-> << <<"listen">>, <<"hear">>, <<"tell">>, <<"say">>,
                        <<"sound">> >>,
      explanation |-> <<"Auditory learners benefit from verbal instructions">>]) @@
  ("kinesthetic" :>
     [strategies |-> << <<"try">>, <<"move">>, <<"touch">>, <<"build">>,
                        <<"practice">> >>,
      explanation |-> <<"Kinesthetic learners need hands-on activities">>])

\* built on every call: the frustration entry formats behavior_trigger
behavior_strategies(behavior_trigger) ==
  ("attention" :>
     [strategies |-> << <<"let's", "focus">>, <<"watch", "carefully">>,
                        <<"look", "at", "this">> >>,
      explanation |-> <<"Students with attention challenges need clear prompts">>]) @@
  ("frustration" :>
     [strategies |-> << <<"you", "can", "do", "this">>,
                        <<"let's", "try", "together">>,
                        <<"take", "your", "time">> >>,
      explanation |-> <<"When frustrated due to", behavior_trigger>>])

subject_approaches ==
  ("math" :>
     [strategies |-> << <<"break", "down">>, <<"step", "by", "step">>,
                        <<"use", "manipulatives">>, <<"draw", "it", "out">> >>,
      explanation |-> <<"Mathematical concepts need concrete representations">>]) @@
  ("reading" :>
     [strategies |-> << <<"sound", "it", "out">>, <<"look", "for", "clues">>,
                        <<"picture", "walk">>, <<"sight", "words">> >>,
      explanation |-> <<"Reading skills develop through phonics">>])

\* the share of the score each category adds, in hundredths
TimeWeight == 20

StyleWeight == 20

BehaviorWeight == 30

SubjectWeight == 30

\* the running locals of evaluate_response, g the generator's state
NoLocals(g) ==
  [score |-> 0, feedback |-> <<>>, suggestions |-> <<>>, explanations |-> <<>>,
   rng |-> g]

\* a match that adds a share of the weight drawn from the generator
MatchedRandomShare(l, weight, strength) ==
  [l EXCEPT !.score = @ + (weight * (l.rng % 2)), !.feedback = Append(@, strength)]

\* if any(...): score += weight; feedback.append(strength)
Matched(l, weight, strength) ==
  [l EXCEPT !.score = @ + weight, !.feedback = Append(@, strength)]

\* else: suggestions.append(f"... {random.choice(strategies)}");
\*       explanations.append(explanation)
MissedChoice(l, template, entry) ==
  [l EXCEPT !.suggestions = Append(@, <<template, RandomChoice(l.rng, entry.strategies)>>),
            !.explanations = Append(@, entry.explanation),
            !.rng = Advance(@)]

\* one suggestion for each of the first two strategies
MissedFirstTwoEach(l, template, entry) ==
  [l EXCEPT !.suggestions = @ \o << <<template, entry.strategies[1]>>,
                                    <<template, entry.strategies[2]>> >>,
            !.explanations = Append(@, entry.explanation)]

\* else: suggestions.append(f"... {', '.join(strategies[:2])}");
\*       explanations.append(explanation)
MissedFirstTwo(l, template, entry) ==
  [l EXCEPT !.suggestions = Append(@, <<template, SubSeq(entry.strategies, 1, 2)>>),
            !.explanations = Append(@, entry.explanation)]

\* 1. Time-appropriate strategies
TimeRule(l, teacher_response, time_of_day) ==
  IF AnyIn(time_strategies[time_of_day].strategies, teacher_response)
  THEN Matched(l, TimeWeight, <<"Good use of appropriate strategy", time_of_day>>)
  ELSE MissedChoice(l, <<"Consider strategies like", time_of_day>>,
                    time_strategies[time_of_day])

\* 2. Learning style alignment
StyleRule(l, teacher_response, learning_style) ==
  IF AnyIn(style_strategies[learning_style].strategies, teacher_response)
  THEN Matched(l, StyleWeight, <<"Response matches learning style", learning_style>>)
  ELSE MissedFirstTwo(l, <<"Include learning approaches like", learning_style>>,
                      style_strategies[learning_style])

\* 3. Behavioral management
BehaviorRule(l, teacher_response, behavior_type, behavior_trigger) ==
  IF AnyIn(behavior_strategies(behavior_trigger)[behavior_type].strategies,
           teacher_response)
  THEN Matched(l, BehaviorWeight, <<"Appropriate behavioral support">>)
  ELSE MissedChoice(l, <<"Try phrases like">>,
                    behavior_strategies(behavior_trigger)[behavior_type])

\* the subject rule adding the time rule's share
SubjectRuleTimeWeight(l, teacher_response, subject) ==
  IF AnyIn(subject_approaches[subject].strategies, teacher_response)
  THEN Matched(l, TimeWeight, <<"Good subject-specific support", subject>>)
  ELSE MissedChoice(l, <<"Include strategies like", subject>>,
                    subject_approaches[subject])

\* 4. Subject-specific support
SubjectRule(l, teacher_response, subject) ==
  IF AnyIn(subject_approaches[subject].strategies, teacher_response)
  THEN Matched(l, SubjectWeight, <<"Good subject-specific support", subject>>)
  ELSE MissedChoice(l, <<"Include strategies like", subject>>,
                    subject_approaches[subject])

positive_reactions ==
  <<"sits up straighter", "nods enthusiastically", "smiles",
    "looks more confident", "focuses on the work">>

neutral_reactions ==
  <<"listens carefully", "thinks about it", "nods slowly", "looks uncertain",
    "pays more attention">>

negative_reactions ==
  <<"still looks confused", "slumps in chair", "seems discouraged",
    "fidgets more", "avoids eye contact">>

\* the student reaction for a score, drawn in generator state g
Reaction(score, g) ==
  IF score >= 80 THEN RandomChoice(g, positive_reactions)
  ELSE IF score >= 40 THEN RandomChoice(g, neutral_reactions)
  ELSE RandomChoice(g, negative_reactions)

\* explanations[i - 1] if len(explanations) > i - 1 else ''
ExplanationAt(explanations, i) ==
  IF Len(explanations) >= i THEN explanations[i] ELSE <<>>

\* f"{score*100/weight:.0f}%": the nearest whole percentage
Percent(score, weight) == ((score * 200) + weight) \div (2 * weight)

\* state deltas in which the mood takes the whole score
StateChangesMoodWhole(score) ==
  [engagement |-> score \div 2, understanding |-> score \div 2, mood |-> score]

\* 'state_changes': {'engagement': score/2, 'understanding': score/2,
\*                   'mood': score/2}
StateChanges(score) ==
  [engagement |-> score \div 2, understanding |-> score \div 2,
   mood |-> score \div 2]

\* the evaluation dictionary evaluate_response builds from its locals
Evaluation(l, time_of_day, learning_style, subject) ==
  [score |-> l.score,
   context_alignment |->
     [time_appropriate |-> Min2(l.score + 20, 100),
      learning_style |-> Min2(l.score + 20, 100),
      behavioral |-> Min2(l.score + 30, 100),
      subject_specific |-> Min2(l.score + 30, 100)],
   identified_strategies |->
     << [type |-> "time_management", effectiveness |-> l.score,
         explanation |-> ExplanationAt(l.explanations, 1)],
        [type |-> "learning_style", effectiveness |-> l.score,
         explanation |-> ExplanationAt(l.explanations, 2)],
        [type |-> "behavioral", effectiveness |-> l.score,
         explanation |-> ExplanationAt(l.explanations, 3)] >>,
   feedback |-> l.feedback,
   suggestions |-> l.suggestions,
   explanations |-> l.explanations,
   overall_explanation |->
     << <<time_of_day, Percent(l.score, 20), ExplanationAt(l.explanations, 1)>>,
        <<learning_style, Percent(l.score, 20), ExplanationAt(l.explanations, 2)>>,
        <<Percent(l.score, 30), ExplanationAt(l.explanations, 3)>>,
        <<subject, Percent(l.score, 30), ExplanationAt(l.explanations, 4)>>,
        <<l.score>> >>,
   student_reaction |-> Reaction(l.score, l.rng),
   state_changes |-> StateChanges(l.score)]

\* a call that ends in an exception, the generator left in state g
Raises(exception, key, g) ==
  [raised |-> TRUE, at |-> exception, key |-> key, val |-> <<>>, rng |-> g]

\* a call that returns, after the draw of the reaction
Returned(val, g) ==
  [raised |-> FALSE, at |-> "", key |-> "", val |-> val, rng |-> Advance(g)]

\* .get("trigger", ""): a missing trigger reads as the empty text
SubscriptTriggerOptional(d, key) ==
  IF key \in DOMAIN d THEN [raised |-> FALSE, val |-> d[key]]
  ELSE IF key = "trigger" THEN [raised |-> FALSE, val |-> ""]
  ELSE [raised |-> TRUE, val |-> key]

\* d[key]: the value, or the KeyError that names the key
Subscript(d, key) ==
  IF key \in DOMAIN d THEN [raised |-> FALSE, val |-> d[key]]
  ELSE [raised |-> TRUE, val |-> key]

\* a subscript of the dictionary an earlier subscript returned
SubscriptOf(got, key) == IF got.raised THEN got ELSE Subscript(got.val, key)

\* the first of the reads, in order, that raised; the last where none did
FirstRaised(reads) ==
  IF \E i \in DOMAIN reads : reads[i].raised
  THEN reads[CHOOSE i \in DOMAIN reads :
               reads[i].raised /\ \A j \in 1 .. (i - 1) : ~reads[j].raised]
  ELSE reads[Len(reads)]

\* the rules from the learning style on, the time rule done
FromStyleRule(l1, teacher_response, scenario) ==
  LET student_context == scenario.student_context
      behavior_type == scenario.behavioral_context.type
      behavior_trigger == Subscript(scenario.behavioral_context, "trigger").val
      subject == scenario.subject
      learning_style == Subscript(student_context, "learning_style")
      l2 == StyleRule(l1, teacher_response, learning_style.val)
      l3 == BehaviorRule(l2, teacher_response, behavior_type, behavior_trigger)
      l4 == SubjectRule(l3, teacher_response, subject)
  IN  IF learning_style.raised THEN Raises("KeyError", learning_style.val, l1.rng)
      ELSE IF Subscript(style_strategies, learning_style.val).raised
      THEN Raises("KeyError", learning_style.val, l1.rng)
      ELSE IF Subscript(behavior_strategies(behavior_trigger), behavior_type).raised
      THEN Raises("KeyError", behavior_type, l2.rng)
      ELSE IF Subscript(subject_approaches, subject).raised
      THEN Raises("KeyError", subject, l3.rng)
      ELSE Returned(Evaluation(l4, scenario.time_of_day, learning_style.val, subject),
                    l4.rng)

\* evaluate_response(teacher_response, scenario), called with the generator
\* in state g and the knowledge store holding db
EvaluateResponse(teacher_response, scenario, g, db) ==
  LET context ==
        FirstRaised(<< Subscript(scenario, "time_of_day"),
                       Subscript(scenario, "student_context"),
                       SubscriptOf(Subscript(scenario, "behavioral_context"), "type"),
                       SubscriptOf(Subscript(scenario, "behavioral_context"), "trigger"),
                       Subscript(scenario, "subject") >>)
  IN  IF context.raised THEN Raises("KeyError", context.val, g)
      ELSE IF Subscript(time_strategies, scenario.time_of_day).raised
      THEN Raises("KeyError", scenario.time_of_day, g)
      ELSE FromStyleRule(TimeRule(NoLocals(g), teacher_response, scenario.time_of_day),
                         teacher_response, scenario)

(***************************************************************************)
(* The evaluators that use the knowledge base:                             *)
(* KnowledgeManager.evaluate_response (src/knowledge_manager.py), which    *)
(* embeds its queries and searches the store, and                          *)
(* KnowledgeProcessor.evaluate_response (src/knowledge_processor.py),      *)
(* which asks the language model.                                          *)
(***************************************************************************)
\* embedding_model.encode of a formatted query: one vector per text
EncodeQuery(parts) ==
  CASE parts[2] = "attention" -> <<1, 0>>
    [] parts[2] = "frustration" -> <<0, 1>>
    [] OTHER -> <<1, 1>>

\* embedding_model.encode of a response: one vector per text
EncodeWords(words) == <<(Len(words) % 3) - 1, 1>>

\* faiss.pairwise_distances of two vectors: the squared distance
Distance2(a, b) ==
  LET diff == [i \in DOMAIN a |-> a[i] - b[i]] IN Dot(diff, diff)

\* KnowledgeManager.search: the store's results under other keys
km_search(db, query, k) ==
  LET results == search(db, EncodeQuery(query), k)
  IN  [i \in DOMAIN results |->
         [text |-> results[i].content, metadata |-> results[i].metadata,
          relevance |-> results[i].similarity]]

\* _calculate_strategy_score and _calculate_intervention_score: the terms
\* similarity * relevance of min(1.0, sum / len), 0.0 for an empty list
calculate_score(response, strategies) ==
  [i \in DOMAIN strategies |->
     [similarity |-> Distance2(EncodeWords(response), Encode(strategies[i].text)),
      relevance |-> strategies[i].relevance]]

\* the text of each search result
TextsOf(found) == [i \in DOMAIN found |-> found[i].text]

\* KnowledgeManager.evaluate_response(response, scenario) beside the store db;
\* fails names the provider that is down during the call
KnowledgeManagerEvaluate(response, scenario, db, fails) ==
  LET first_keys ==
        FirstRaised(<< SubscriptOf(Subscript(scenario, "behavioral_context"), "type"),
                       Subscript(scenario, "subject"),
                       Subscript(scenario, "difficulty") >>)
      manifestation ==
        SubscriptOf(Subscript(scenario, "behavioral_context"), "manifestation")
      relevant_strategies ==
        km_search(db, <<"effective teaching strategies for",
                        scenario.behavioral_context.type, scenario.subject,
                        scenario.difficulty>>, 3)
      relevant_interventions ==
        km_search(db, <<"interventions for", manifestation.val>>, 3)
      strategy_score == calculate_score(response, relevant_strategies)
      intervention_score == calculate_score(response, relevant_interventions)
  IN  IF first_keys.raised
      THEN [raised |-> TRUE, at |-> "KeyError", val |-> <<>>]
      ELSE IF fails = "embedding"
      THEN [raised |-> TRUE, at |-> "EmbeddingError", val |-> <<>>]
      ELSE IF fails = "index"
      THEN [raised |-> TRUE, at |-> "OperationalError", val |-> <<>>]
      ELSE IF manifestation.raised
      THEN [raised |-> TRUE, at |-> "KeyError", val |-> <<>>]
      ELSE [raised |-> FALSE, at |-> "",
            val |-> [strategy_score |-> strategy_score,
                     intervention_score |-> intervention_score,
                     total_score |-> <<strategy_score, intervention_score>>,
                     relevant_strategies |-> TextsOf(relevant_strategies),
                     relevant_interventions |-> TextsOf(relevant_interventions)]]

\* the evaluation KnowledgeProcessor.evaluate_response answers in its except
canned_evaluation ==
  [score |-> 50, strengths |-> <<"Basic supportive response">>,
   suggestions |-> <<"Consider more specific strategies">>,
   explanation |-> "Unable to perform detailed evaluation"]

\* what the language model answers when it answers
llm_evaluation ==
  [score |-> 75, strengths |-> <<"Clear explanation">>,
   suggestions |-> <<"Add more visual aids">>,
   explanation |-> "Good basic approach"]

\* KnowledgeProcessor.evaluate_response(response, context): the prompt is
\* formatted from the context and sent to the language model, all in a try
KnowledgeProcessorEvaluate(response, context, fails) ==
  LET keys ==
        FirstRaised(<< Subscript(context, "subject"),
                       SubscriptOf(Subscript(context, "student_context"), "learning_style"),
                       SubscriptOf(Subscript(context, "behavioral_context"), "type"),
                       Subscript(context, "difficulty"),
                       SubscriptOf(Subscript(context, "behavioral_context"),
                                   "manifestation") >>)
  IN  IF keys.raised \/ fails # "none" THEN canned_evaluation ELSE llm_evaluation

\* generate_scenario: its draws pick the time of day, the behavior and, where
\* the caller names none, the subject; the learning style was drawn when the
\* chatbot was built.  The generator of the model has too few states to span
\* the scenarios, so the scenario is any of them and the generator moves on
\* by the eight draws of the call.
GenerateScenario(scenario) ==
  /\ current_scenario' = scenario
  /\ rng' = (rng + 8) % RngPeriod
  /\ out' = NoOut
  /\ UNCHANGED <<storeVars, batch>>

\* a caller that holds a scenario of its own making
PassScenario(scenario) ==
  /\ current_scenario' = scenario
  /\ out' = NoOut
  /\ UNCHANGED <<storeVars, rng, batch>>

\* simulate_student_response: the language model's answer, or, where the
\* model fails, a template drawn from the generator
SimulateStudentResponse(llm_ok) ==
  LET behavior_type ==
        SubscriptOf(Subscript(current_scenario, "behavioral_context"), "type")
  IN  /\ current_scenario # NoScenario
      /\ IF llm_ok
         THEN /\ out' = [op |-> "simulate", ok |-> TRUE, at |-> "",
                         val |-> <<"llm">>, arg |-> <<>>]
              /\ rng' = rng
         ELSE IF behavior_type.raised
         THEN /\ out' = [op |-> "simulate", ok |-> FALSE, at |-> "KeyError",
                         val |-> <<>>, arg |-> <<>>]
              /\ rng' = rng
         ELSE /\ out' = [op |-> "simulate", ok |-> TRUE, at |-> "",
                         val |-> <<"template", behavior_type.val, (rng % 3) + 1>>,
                         arg |-> <<>>]
              /\ rng' = Advance(rng)
      /\ UNCHANGED <<storeVars, current_scenario, batch>>

\* one call of evaluate_response on the scenario the application holds
Evaluate(teacher_response) ==
  LET r == EvaluateResponse(teacher_response, current_scenario, rng, ReadView)
  IN  /\ current_scenario # NoScenario
      /\ out' = [op |-> "evaluate", ok |-> ~r.raised, at |-> r.at, val |-> r.val,
                 arg |-> <<teacher_response, current_scenario>>]
      /\ rng' = r.rng
      /\ UNCHANGED <<storeVars, current_scenario, batch>>

\* one call of KnowledgeManager.evaluate_response while the embedding provider
\* or the index (the store's database) may be down
SemanticEvaluate(teacher_response, fails) ==
  LET r == KnowledgeManagerEvaluate(teacher_response, current_scenario, ReadView, fails)
  IN  /\ current_scenario # NoScenario
      /\ out' = [op |-> "semantic", ok |-> ~r.raised, at |-> r.at, val |-> r.val,
                 arg |-> <<teacher_response, current_scenario, fails>>]
      /\ UNCHANGED <<storeVars, rng, current_scenario, batch>>

\* one call of KnowledgeProcessor.evaluate_response while the language model
\* may be down
ProcessorEvaluate(teacher_response, fails) ==
  /\ current_scenario # NoScenario
  /\ out' = [op |-> "processor", ok |-> TRUE, at |-> "",
             val |-> KnowledgeProcessorEvaluate(teacher_response, current_scenario, fails),
             arg |-> <<teacher_response, current_scenario, fails>>]
  /\ UNCHANGED <<storeVars, rng, current_scenario, batch>>

(***************************************************************************)
(* The evaluator's inputs.                                                 *)
(***************************************************************************)
\* the scenarios generate_scenario builds, cut to the keys the evaluators read
Scenarios ==
  [time_of_day : {"morning", "after lunch", "late afternoon"},
   student_context : [learning_style : {"visual", "auditory", "kinesthetic"}],
   behavioral_context : [type : {"attention", "frustration"},
                         trigger : {"a hard problem"},
                         manifestation : {"fidgeting"}],
   subject : {"math", "reading"},
   difficulty : {"regrouping"}]

\* d without the key k
Without(d, k) == [x \in (DOMAIN d) \ {k} |-> d[x]]

\* the scenarios of a morning lesson with one of the evaluator's keys missing
Malformed ==
  LET base == {s \in Scenarios : s.time_of_day = "morning" /\ s.subject = "math"
                                 /\ s.student_context.learning_style = "visual"}
  IN  {Without(s, k) : s \in base,
                       k \in {"time_of_day", "student_context", "behavioral_context",
                              "subject"}}
      \cup {[s EXCEPT !.student_context = Without(@, "learning_style")] : s \in base}
      \cup {[s EXCEPT !.behavioral_context = Without(@, k)] :
              s \in base, k \in {"type", "trigger"}}

\* what the teacher types
Responses ==
  { <<>>,
    <<"Watch", "carefully">>,
    <<"let's", "try", "together">>,
    <<"take", "a", "movement", "break">>,
    <<"SOUND", "it", "out">>,
    <<"Let's", "focus", "clear", "expectations", "draw", "it", "out">> }

\* the committed tables after the chunks cs were added in order
StoreOf(cs) ==
  [documents |-> [i \in DOMAIN cs |-> DocumentRow(cs[i])],
   embeddings |-> [i \in DOMAIN cs |-> EmbeddingRow(i, cs[i])]]

\* the chunks of the knowledge stores the evaluator runs beside: none, two
StoredChunks ==
  { <<>>,
    <<ChunkOf("notes.txt", "alpha"), ChunkOf("plan.json", "beta")>> }

StoreContents == {StoreOf(cs) : cs \in StoredChunks}

\* a session that starts beside a filled store, the generator seeded by the
\* operating system
InitEval ==
  /\ \E cs \in StoredChunks :
       /\ documents = StoreOf(cs).documents
       /\ embeddings = StoreOf(cs).embeddings
       /\ issued = [i \in DOMAIN cs |-> i]
       /\ added = cs
  /\ lock = "none"
  /\ pc = [p \in Procs |-> "idle"]
  /\ tx = [p \in Procs |-> NoTx]
  /\ arg = [p \in Procs |-> NoArg]
  /\ doc_id = [p \in Procs |-> 0]
  /\ out = NoOut
  /\ rng \in RngStates
  /\ current_scenario = NoScenario
  /\ batch = NoBatch
  /\ InitComponents

NextEval ==
  \/ \E s \in Scenarios : GenerateScenario(s) /\ UNCHANGED componentVars
  \/ \E s \in Malformed : PassScenario(s) /\ UNCHANGED componentVars
  \/ \E r \in Responses : Evaluate(r) /\ UNCHANGED componentVars
  \/ \E llm_ok \in BOOLEAN : SimulateStudentResponse(llm_ok) /\ UNCHANGED componentVars

SpecEval == InitEval /\ [][NextEval]_vars

\* the responses the knowledge-base evaluators are asked about
SemanticResponses == { <<>>, <<"Watch", "carefully">> }

\* a session that uses the knowledge-base evaluators
InitSemantic == InitEval /\ rng = 0

NextSemantic ==
  \/ \E s \in Scenarios : GenerateScenario(s) /\ UNCHANGED componentVars
  \/ \E s \in Malformed : PassScenario(s) /\ UNCHANGED componentVars
  \/ \E r \in SemanticResponses, fails \in {"none", "embedding", "index"} :
       SemanticEvaluate(r, fails) /\ UNCHANGED componentVars
  \/ \E r \in SemanticResponses, fails \in {"none", "llm"} : ProcessorEvaluate(r, fails) /\ UNCHANGED componentVars

SpecSemantic == InitSemantic /\ [][NextSemantic]_vars

(***************************************************************************)
(* Vocabulary of the claims about the evaluator.                           *)
(***************************************************************************)
Categories == {"time", "style", "behavior", "subject"}

\* the evaluator's own test of a category, on a scenario with every key
Matches(category, teacher_response, scenario) ==
  CASE category = "time" ->
         AnyIn(time_strategies[scenario.time_of_day].strategies, teacher_response)
    [] category = "style" ->
         AnyIn(style_strategies[scenario.student_context.learning_style].strategies,
               teacher_response)
    [] category = "behavior" ->
         AnyIn(behavior_strategies(scenario.behavioral_context.trigger)
                 [scenario.behavioral_context.type].strategies, teacher_response)
    [] OTHER ->
         AnyIn(subject_approaches[scenario.subject].strategies, teacher_response)

MatchedCategories(teacher_response, scenario) ==
  {c \in Categories : Matches(c, teacher_response, scenario)}

WeightOf(category) ==
  CASE category = "time" -> TimeWeight
    [] category = "style" -> StyleWeight
    [] category = "behavior" -> BehaviorWeight
    [] OTHER -> SubjectWeight

RECURSIVE SumOfWeights(_)
SumOfWeights(S) ==
  IF S = {} THEN 0
  ELSE LET c == CHOOSE x \in S : TRUE IN WeightOf(c) + SumOfWeights(S \ {c})

\* the first words of the strength and of the suggestion of a category
StrengthOf(category) ==
  CASE category = "time" -> "Good use of appropriate strategy"
    [] category = "style" -> "Response matches learning style"
    [] category = "behavior" -> "Appropriate behavioral support"
    [] OTHER -> "Good subject-specific support"

SuggestionOf(category) ==
  CASE category = "time" -> "Consider strategies like"
    [] category = "style" -> "Include learning approaches like"
    [] category = "behavior" -> "Try phrases like"
    [] OTHER -> "Include strategies like"

\* the categories a list of strengths, or of suggestions, speaks of
Strengths(feedback) ==
  {c \in Categories : \E i \in DOMAIN feedback : feedback[i][1] = StrengthOf(c)}

Suggested(suggestions) ==
  {c \in Categories : \E i \in DOMAIN suggestions : suggestions[i][1][1] = SuggestionOf(c)}

RequiredKeysPresent(scenario) ==
  /\ {"time_of_day", "student_context", "behavioral_context", "subject"}
       \subseteq DOMAIN scenario
  /\ "learning_style" \in DOMAIN scenario.student_context
  /\ {"type", "trigger"} \subseteq DOMAIN scenario.behavioral_context

Evaluated == out.op = "evaluate"

EvaluatedWellFormed == Evaluated /\ out.arg[2] \in Scenarios

(***************************************************************************)
(* C11: for every response and every well-formed scenario the call returns *)
(* a score that is the sum of the weights of exactly the categories the    *)
(* response matched (time 0.20, style 0.20, behavior 0.30, subject 0.30),  *)
(* hence between 0 and 1.                                                  *)
(***************************************************************************)
C11_ScoreIsSumOfMatchedWeights ==
  EvaluatedWellFormed =>
    /\ out.ok
    /\ out.val.score = SumOfWeights(MatchedCategories(out.arg[1], out.arg[2]))
    /\ 0 <= out.val.score
    /\ out.val.score <= 100

\* a response that matched a 0.20 and a 0.30 category and missed the others
C11_Witness ==
  /\ EvaluatedWellFormed
  /\ MatchedCategories(out.arg[1], out.arg[2]) = {"style", "behavior"}
  /\ out.val.score = 50

(***************************************************************************)
(* C12: the call returns one strength for each matched category and one    *)
(* suggestion for each missed one, four entries in all: four and none      *)
(* where all match, none and four where none does, two and two where two.  *)
(***************************************************************************)
C12_OneEntryPerCategory ==
  EvaluatedWellFormed =>
    LET matched == MatchedCategories(out.arg[1], out.arg[2])
    IN  /\ out.ok
        /\ Len(out.val.feedback) = Cardinality(matched)
        /\ Len(out.val.suggestions) = 4 - Cardinality(matched)
        /\ Strengths(out.val.feedback) = matched
        /\ Suggested(out.val.suggestions) = Categories \ matched

\* two strengths and two suggestions, for the subject and the style matched
C12_Witness ==
  /\ EvaluatedWellFormed
  /\ Len(out.val.feedback) = 2
  /\ Len(out.val.suggestions) = 2
  /\ Strengths(out.val.feedback) = {"style", "subject"}

(***************************************************************************)
(* C13: the score, the strengths and the state deltas of a returned        *)
(* evaluation are those the same response and scenario get in every state  *)
(* of the random generator and beside every content of the knowledge store.*)
(***************************************************************************)
C13_ScoreIgnoresRandomAndStore ==
  (Evaluated /\ out.ok) =>
    \A g \in RngStates, db \in StoreContents :
      LET r == EvaluateResponse(out.arg[1], out.arg[2], g, db)
      IN  /\ ~r.raised
          /\ r.val.score = out.val.score
          /\ r.val.feedback = out.val.feedback
          /\ r.val.state_changes = out.val.state_changes

\* an evaluation beside a filled store whose suggestions another generator
\* state would have drawn differently
C13_Witness ==
  /\ Evaluated /\ out.ok
  /\ documents # <<>>
  /\ out.val.score > 0
  /\ \E g \in RngStates :
       EvaluateResponse(out.arg[1], out.arg[2], g, ReadView).val.suggestions
         # out.val.suggestions

(***************************************************************************)
(* C14: a call with the same response and scenario as the call before it,  *)
(* in the same process and so under the same seed, returns the same        *)
(* suggestions.                                                            *)
(***************************************************************************)
C14_SameSeedSameSuggestions ==
  [][(Evaluated /\ out.ok /\ out'.op = "evaluate" /\ out'.ok /\ out'.arg = out.arg)
       => out'.val.suggestions = out.val.suggestions]_vars

(***************************************************************************)
(* C15: an evaluation during which the embedding provider, the index or    *)
(* the language model fails does not raise: it returns the rule-based      *)
(* score of the response and an empty semantic breakdown.                  *)
(***************************************************************************)
C15_ProviderFailureDegrades ==
  (/\ out.op \in {"semantic", "processor"}
   /\ out.arg[3] # "none"
   /\ out.arg[2] \in Scenarios) =>
    /\ out.ok
    /\ "score" \in DOMAIN out.val
    /\ out.val.score = EvaluateResponse(out.arg[1], out.arg[2], rng, ReadView).val.score
    /\ "relevant_strategies" \in DOMAIN out.val
    /\ out.val.relevant_strategies = <<>>
    /\ out.val.relevant_interventions = <<>>

(***************************************************************************)
(* C16: a call whose scenario lacks time_of_day, the learning style, the   *)
(* behavior type or trigger, or the subject raises to its caller and       *)
(* returns no evaluation, hence no default score.                          *)
(***************************************************************************)
C16_MissingKeyRaises ==
  (Evaluated /\ ~RequiredKeysPresent(out.arg[2])) =>
    /\ ~out.ok
    /\ out.at = "KeyError"
    /\ out.val = <<>>

\* a call that raised on a scenario whose behavioral context has no trigger
C16_Witness ==
  /\ Evaluated
  /\ ~out.ok
  /\ "behavioral_context" \in DOMAIN out.arg[2]
  /\ "trigger" \notin DOMAIN out.arg[2].behavioral_context

(***************************************************************************)
(* Ingestion, KnowledgeManager (src/knowledge_manager.py): extract_text    *)
(* turns a file into chunk drafts, add_to_knowledge_base embeds and stores *)
(* them, process_all_files does so for a whole directory.  A text is the   *)
(* sequence of its characters.                                             *)
(***************************************************************************)
\* the longest text of a .txt file
MaxTextLen == 2

\* the characters of a text: a letter, a blank and a line feed
Alphabet == {"a", " ", "\n"}

\* str.strip's whitespace
Whitespace == {" ", "\n"}

RECURSIVE TextsOfLen(_)
TextsOfLen(n) ==
  IF n = 0 THEN {<<>>}
  ELSE {Append(t, c) : t \in TextsOfLen(n - 1), c \in Alphabet}

Texts == UNION {TextsOfLen(n) : n \in 0 .. MaxTextLen}

RECURSIVE LStrip(_)
LStrip(s) ==
  IF s # <<>> /\ s[1] \in Whitespace THEN LStrip(Tail(s)) ELSE s

RECURSIVE RStrip(_)
RStrip(s) ==
  IF s # <<>> /\ s[Len(s)] \in Whitespace THEN RStrip(SubSeq(s, 1, Len(s) - 1)) ELSE s

\* s.strip()
Strip(s) == RStrip(LStrip(s))

\* text.split('\n\n'): cut at each blank-line boundary, left to right
RECURSIVE SplitSections(_)
SplitSections(text) ==
  IF \E i \in 1 .. (Len(text) - 1) : text[i] = "\n" /\ text[i + 1] = "\n"
  THEN LET i == CHOOSE i \in 1 .. (Len(text) - 1) :
                  /\ text[i] = "\n" /\ text[i + 1] = "\n"
                  /\ \A j \in 1 .. (i - 1) : ~(text[j] = "\n" /\ text[j + 1] = "\n")
       IN  <<SubSeq(text, 1, i - 1)>> \o SplitSections(SubSeq(text, i + 2, Len(text)))
  ELSE <<text>>

\* 'content': section
TxtContent(section) == section

\* the drafts of a .txt file: one for each section that is not blank
RECURSIVE TxtDocuments(_, _, _)
TxtDocuments(name, sections, i) ==
  IF i > Len(sections) THEN <<>>
  ELSE (IF Strip(sections[i]) # <<>>
        THEN << [content |-> TxtContent(sections[i]),
                 metadata |-> << <<"source", PyStr(name)>>, <<"section", PyInt(i)>>,
                                 <<"type", PyStr("txt")>> >>] >>
        ELSE <<>>)
       \o TxtDocuments(name, sections, i + 1)

(***************************************************************************)
(* Structured data: what json.load and yaml.safe_load return.              *)
(***************************************************************************)
JStr(v) == [t |-> "str", v |-> v]

JInt(n) == [t |-> "int", v |-> n]

JBool(b) == [t |-> "bool", v |-> b]

JNull == [t |-> "null"]

JDict(items) == [t |-> "dict", items |-> items]

JList(items) == [t |-> "list", items |-> items]

\* isinstance(value, (str, int, float)): bool is a subclass of int
IsChunkScalar(value) == value.t \in {"str", "int", "float", "bool"}

\* str(value), the characters of a scalar
StrOf(value) ==
  CASE value.t = "str" -> value.v
    [] value.t = "int" -> <<ToString(value.v)>>
    [] value.t = "bool" -> IF value.v THEN <<"T", "r", "u", "e">>
                           ELSE <<"F", "a", "l", "s", "e">>
    [] OTHER -> <<"N", "o", "n", "e">>

StructuredDocument(source, content, path) ==
  [content |-> content,
   metadata |-> << <<"source", PyStr(source)>>, <<"path", PyStr(path)>>,
                   <<"type", PyStr("structured")>> >>]

\* _process_structured_data(data, documents, source, path): the drafts it
\* appends, in order
RECURSIVE ProcessStructuredData(_, _, _)
ProcessStructuredData(data, source, path) ==
  LET RECURSIVE Items(_)
      Items(i) ==
        IF i > Len(data.items) THEN <<>>
        ELSE LET key == IF data.t = "dict" THEN data.items[i][1] ELSE <<>>
                 value == IF data.t = "dict" THEN data.items[i][2] ELSE data.items[i]
                 current_path == IF data.t = "dict" THEN Append(path, key)
                                 ELSE Append(path, <<ToString(i - 1)>>)
                 content == IF data.t = "dict" THEN key \o <<":", " ">> \o StrOf(value)
                            ELSE StrOf(value)
             IN  (IF IsChunkScalar(value)
                  THEN <<StructuredDocument(source, content, current_path)>>
                  ELSE ProcessStructuredData(value, source, current_path))
                 \o Items(i + 1)
  IN  IF data.t \in {"dict", "list"} THEN Items(1) ELSE <<>>

\* the structured files' data
JsonValues ==
  { JDict(<< <<<<"k">>, JStr(<<"a">>)>> >>),
    JDict(<< <<<<"k">>, JInt(7)>>, <<<<"m">>, JBool(TRUE)>> >>),
    JDict(<< <<<<"k">>, JNull>> >>),
    JDict(<< <<<<"k">>, JStr(<<>>)>> >>),
    JDict(<< <<<<"k">>, JDict(<< <<<<"m">>, JStr(<<"a">>)>> >>)>>,
            <<<<"n">>, JList(<<JInt(1), JNull>>)>> >>),
    JList(<<JStr(<<"a">>), JList(<<JBool(FALSE)>>), JDict(<<>>)>>),
    JList(<<JStr(<<" ">>)>>),
    JInt(5),
    JNull }

(***************************************************************************)
(* The files of the knowledge base directory.                              *)
(***************************************************************************)
\* the most files the directory holds
MaxFiles == 3

\* a file: corrupt where reading or parsing it raises
File(name, suffix, corrupt, text, data, pages) ==
  [name |-> name, suffix |-> suffix, corrupt |-> corrupt, text |-> text,
   data |-> data, pages |-> pages]

TxtFiles == {File("notes.txt", ".txt", FALSE, t, JNull, <<>>) : t \in Texts}

JsonFiles ==
  {File("plan.json", ".json", FALSE, <<>>, d, <<>>) : d \in JsonValues}
  \cup {File("plan.json", ".json", TRUE, <<>>, JNull, <<>>)}

OtherFiles ==
  { File("slides.pdf", ".pdf", TRUE, <<>>, JNull, <<>>),
    File("slides.pdf", ".pdf", FALSE, <<>>, JNull, << <<"a", " ">>, <<" ">> >>),
    File("photo.xyz", ".xyz", FALSE, <<>>, JNull, <<>>),
    File("knowledge.db", ".db", FALSE, <<>>, JNull, <<>>) }

AllFiles == TxtFiles \cup JsonFiles \cup OtherFiles

\* knowledge_base_dir.glob('*.*'): the files of a directory in any order
Listings ==
  {l \in UNION {[1 .. n -> AllFiles] : n \in 0 .. MaxFiles} :
     \A i, j \in DOMAIN l : i # j => l[i].name # l[j].name}

\* the drafts of a .pdf file: one for each page whose text is not blank
RECURSIVE PdfDocuments(_, _, _)
PdfDocuments(name, pages, i) ==
  IF i > Len(pages) THEN <<>>
  ELSE (IF Strip(pages[i]) # <<>>
        THEN << [content |-> pages[i],
                 metadata |-> << <<"source", PyStr(name)>>, <<"page", PyInt(i)>>,
                                 <<"type", PyStr("pdf")>> >>] >>
        ELSE <<>>)
       \o PdfDocuments(name, pages, i + 1)

\* extract_text(file_path): the drafts, none for an unsupported suffix and
\* none where anything in the try block raised
extract_text(file) ==
  CASE file.suffix \notin {".pdf", ".txt", ".json"} -> <<>>
    [] file.suffix \in {".pdf", ".txt", ".json"} /\ file.corrupt -> <<>>
    [] file.suffix = ".pdf" /\ ~file.corrupt -> PdfDocuments(file.name, file.pages, 1)
    [] file.suffix = ".txt" /\ ~file.corrupt ->
         TxtDocuments(file.name, SplitSections(file.text), 1)
    [] OTHER -> ProcessStructuredData(file.data, file.name, <<>>)

\* the arguments add_to_knowledge_base passes to add_document for a draft
ChunkOfDocument(doc) ==
  [content |-> doc.content, source |-> doc.metadata[1][2].s,
   chunk_type |-> doc.metadata[3][2].s, metadata |-> doc.metadata,
   embedding |-> EncodeWords(doc.content)]

\* the committed tables after add_document was called for each draft in turn
RECURSIVE AddDocuments(_, _)
AddDocuments(db, docs) ==
  IF docs = <<>> THEN db
  ELSE AddDocuments(
         [documents |-> InsertInto(db.documents, DocumentRow(ChunkOfDocument(Head(docs)))),
          embeddings |-> InsertInto(db.embeddings,
                                    EmbeddingRow(NextRowId(db.documents),
                                                 ChunkOfDocument(Head(docs))))],
         Tail(docs))

\* a batch that ends at the first file that yields no drafts
RemainingAfterAbort(queue) ==
  IF Head(queue).name # "knowledge.db" /\ extract_text(Head(queue)) = <<>>
  THEN <<>> ELSE Tail(queue)

\* the for loop of process_all_files goes on to the next file
RemainingAfter(queue) == Tail(queue)

\* a batch that lists the directory without clearing the store first
ProcessAllFilesBeginNoClear(listing) ==
  /\ batch.state # "running"
  /\ lock = "none"
  /\ batch' = [state |-> "running", listing |-> listing, queue |-> listing]
  /\ out' = [op |-> "clear", ok |-> TRUE, at |-> "",
             val |-> Cardinality(DOMAIN documents), arg |-> <<>>]
  /\ UNCHANGED <<documents, embeddings, added, lock, pc, tx, arg, doc_id, issued, rng,
                 current_scenario>>

\* process_all_files: the store is cleared, then the directory is listed
ProcessAllFilesBegin(listing) ==
  /\ batch.state # "running"
  /\ lock = "none"
  /\ documents' = <<>>
  /\ embeddings' = <<>>
  /\ added' = <<>>
  /\ batch' = [state |-> "running", listing |-> listing, queue |-> listing]
  /\ out' = [op |-> "clear", ok |-> TRUE, at |-> "",
             val |-> Cardinality(DOMAIN documents), arg |-> <<>>]
  /\ UNCHANGED <<lock, pc, tx, arg, doc_id, issued, rng, current_scenario>>

\* one turn of the loop: the database file is skipped, any other file goes
\* through add_to_knowledge_base
ProcessNextFile ==
  /\ batch.state = "running"
  /\ batch.queue # <<>>
  /\ lock = "none"
  /\ LET file == Head(batch.queue)
         docs == IF file.name = "knowledge.db" THEN <<>> ELSE extract_text(file)
         db == AddDocuments(ReadView, docs)
         ids == [i \in DOMAIN docs |-> NextRowId(documents) + i - 1]
     IN  /\ documents' = db.documents
         /\ embeddings' = db.embeddings
         /\ issued' = issued \o ids
         /\ added' = [id \in {ids[i] : i \in DOMAIN ids} |->
                        ChunkOfDocument(docs[id - NextRowId(documents) + 1])]
                     @@ added
         /\ out' = [op |-> "add_to_knowledge_base", ok |-> TRUE, at |-> "",
                    val |-> docs, arg |-> <<file>>]
  /\ batch' = [batch EXCEPT !.queue = RemainingAfter(batch.queue)]
  /\ UNCHANGED <<lock, pc, tx, arg, doc_id, rng, current_scenario>>

\* the loop is over: process_all_files returns
ProcessAllFilesEnd ==
  /\ batch.state = "running"
  /\ batch.queue = <<>>
  /\ batch' = [batch EXCEPT !.state = "done"]
  /\ out' = [op |-> "process_all_files", ok |-> TRUE, at |-> "", val |-> <<>>,
             arg |-> <<>>]
  /\ UNCHANGED <<storeVars, rng, current_scenario>>

\* the chunks an earlier batch left in the store
EarlierChunks == extract_text(File("old.txt", ".txt", FALSE, <<"a">>, JNull, <<>>))

\* a store that an earlier batch filled
InitIngest ==
  /\ documents = AddDocuments(NoTx, EarlierChunks).documents
  /\ embeddings = AddDocuments(NoTx, EarlierChunks).embeddings
  /\ issued = [i \in DOMAIN EarlierChunks |-> i]
  /\ added = [i \in DOMAIN EarlierChunks |-> ChunkOfDocument(EarlierChunks[i])]
  /\ lock = "none"
  /\ pc = [p \in Procs |-> "idle"]
  /\ tx = [p \in Procs |-> NoTx]
  /\ arg = [p \in Procs |-> NoArg]
  /\ doc_id = [p \in Procs |-> 0]
  /\ out = NoOut
  /\ rng = 0
  /\ current_scenario = NoScenario
  /\ batch = NoBatch
  /\ InitComponents

NextIngest ==
  \/ \E l \in Listings :
       batch.state = "idle" /\ ProcessAllFilesBegin(l) /\ UNCHANGED componentVars
  \/ ProcessNextFile /\ UNCHANGED componentVars
  \/ ProcessAllFilesEnd /\ UNCHANGED componentVars

SpecIngest == InitIngest /\ [][NextIngest]_vars

(***************************************************************************)
(* Vocabulary of the claims about ingestion.                               *)
(***************************************************************************)
\* the contents of the stored chunks, in id order
StoredContents ==
  LET ids == Ascending(DOMAIN documents)
  IN  [i \in DOMAIN ids |-> documents[ids[i]].content]

\* a file whose suffix extract_text handles and that reads without error
ExtractsSuccessfully(file) ==
  file.suffix \in {".pdf", ".txt", ".json"} /\ ~file.corrupt

\* the contents of the chunks of the files of a listing that extract
\* successfully, in listing order
RECURSIVE ContentsOfListing(_)
ContentsOfListing(listing) ==
  IF listing = <<>> THEN <<>>
  ELSE LET file == Head(listing)
           docs == IF ExtractsSuccessfully(file) THEN extract_text(file) ELSE <<>>
       IN  [i \in DOMAIN docs |-> docs[i].content] \o ContentsOfListing(Tail(listing))

\* the scalar leaves of a structure: every value that is no mapping and no
\* sequence, null and booleans included
RECURSIVE ScalarLeaves(_)
ScalarLeaves(data) ==
  LET RECURSIVE Sum(_)
      Sum(i) ==
        IF i > Len(data.items) THEN 0
        ELSE ScalarLeaves(IF data.t = "dict" THEN data.items[i][2] ELSE data.items[i])
             + Sum(i + 1)
  IN  IF data.t \in {"dict", "list"} THEN Sum(1) ELSE 1

(***************************************************************************)
(* C17: in a batch, a file with an unsupported suffix or whose extraction  *)
(* fails adds no chunk and raises nothing, and the files after it are      *)
(* still processed: when the batch ends the store holds the chunks of      *)
(* every file that extracted successfully.                                 *)
(***************************************************************************)
C17_BatchSurvivesBadFiles ==
  /\ batch.state # "idle" => out.ok
  /\ batch.state = "done" => StoredContents = ContentsOfListing(batch.listing)
  /\ (out.op = "add_to_knowledge_base" /\ ~ExtractsSuccessfully(out.arg[1]))
       => out.val = <<>>

\* a finished batch whose first file is corrupt or unsupported and whose
\* later files left chunks in the store
C17_Witness ==
  /\ batch.state = "done"
  /\ Len(batch.listing) = 3
  /\ batch.listing[1].name # "knowledge.db"
  /\ ~ExtractsSuccessfully(batch.listing[1])
  /\ ExtractsSuccessfully(batch.listing[2])
  /\ ~ExtractsSuccessfully(batch.listing[3])
  /\ documents # <<>>

(***************************************************************************)
(* C18: the flattening of a structured file yields exactly one chunk for   *)
(* each scalar leaf of its data, null and boolean leaves and a scalar at   *)
(* the root included.                                                      *)
(***************************************************************************)
C18_OneChunkPerScalarLeaf ==
  (/\ out.op = "add_to_knowledge_base"
   /\ out.arg[1].suffix = ".json"
   /\ ~out.arg[1].corrupt) =>
    Len(out.val) = ScalarLeaves(out.arg[1].data)

(***************************************************************************)
(* C20: the content of every chunk ingestion has stored is not empty and   *)
(* has no leading or trailing whitespace.                                  *)
(***************************************************************************)
C20_ContentNonEmptyTrimmed ==
  \A id \in DOMAIN documents :
    /\ documents[id].content # <<>>
    /\ Strip(documents[id].content) = documents[id].content

(***************************************************************************)
(* The store called with embeddings of any length: add_document pickles    *)
(* what it is given, search takes np.dot of the query with every stored    *)
(* vector.                                                                 *)
(***************************************************************************)
\* the deployment dimension: the length of the embedding provider's vectors
Dim == Len(Encode("alpha"))

\* chunks whose embedding is shorter or longer than the provider's
WrongDimInputs ==
  { [ChunkOf("notes.txt", "alpha") EXCEPT !.embedding = <<1>>],
    [ChunkOf("plan.json", "beta") EXCEPT !.embedding = <<1, 0, 1>>] }

DimInputs == {ChunkOf("notes.txt", "alpha"), ChunkOf("plan.json", "gamma")}
             \cup WrongDimInputs

\* np.dot(query_embedding, embedding) is defined: the two lengths agree
Aligned(db, q) ==
  \A i \in DOMAIN JoinRows(db) : Len(PickleLoads(JoinRows(db)[i].embedding)) = Len(q)

\* search on a store that may hold vectors of any length: np.dot raises
\* ValueError at the first stored vector whose length is not the query's
SearchAnyDim(p, query, k) ==
  IF RowsEvalOk(JoinRows(ReadView)) /\ ~Aligned(ReadView, Encode(query))
  THEN /\ pc[p] = "idle"
       /\ out' = [op |-> "search", ok |-> FALSE, at |-> "ValueError", val |-> <<>>,
                  arg |-> <<query, k>>]
       /\ UNCHANGED storeVars
  ELSE Search(p, query, k)

\* one connection that adds chunks of any embedding length and searches
NextDim ==
  \/ \E c \in DimInputs : AddBegin("p1", c) /\ UNCHANGED otherVars
  \/ AddEmbedding("p1") /\ UNCHANGED otherVars
  \/ AddCommit("p1") /\ UNCHANGED otherVars
  \/ AddFail("p1") /\ UNCHANGED otherVars
  \/ \E q \in Queries, k \in Ks : SearchAnyDim("p1", q, k) /\ UNCHANGED otherVars

SpecDim == Init /\ [][NextDim]_vars

(***************************************************************************)
(* C19: add_document refuses an embedding whose length is not the          *)
(* deployment dimension, so every stored embedding has that length and     *)
(* search never meets a vector of another length.                          *)
(***************************************************************************)
C19_StoredEmbeddingsHaveDim ==
  /\ \A id \in DOMAIN embeddings : Len(PickleLoads(embeddings[id].embedding)) = Dim
  /\ out.op = "add" => (out.ok => Len(out.arg.embedding) = Dim)
  /\ out.op = "search" => out.at # "ValueError"

(***************************************************************************)
(* Further claims about TeacherTrainingChatbot.evaluate_response.          *)
(***************************************************************************)
\* the strategies of a category's list, keyed by the scenario's value
StrategiesOf(category, scenario) ==
  CASE category = "time" -> time_strategies[scenario.time_of_day].strategies
    [] category = "style" ->
         style_strategies[scenario.student_context.learning_style].strategies
    [] category = "behavior" ->
         behavior_strategies(scenario.behavioral_context.trigger)
           [scenario.behavioral_context.type].strategies
    [] OTHER -> subject_approaches[scenario.subject].strategies

\* the explanation of a category, keyed by the scenario's value
ExplanationOf(category, scenario) ==
  CASE category = "time" -> time_strategies[scenario.time_of_day].explanation
    [] category = "style" ->
         style_strategies[scenario.student_context.learning_style].explanation
    [] category = "behavior" ->
         behavior_strategies(scenario.behavioral_context.trigger)
           [scenario.behavioral_context.type].explanation
    [] OTHER -> subject_approaches[scenario.subject].explanation

\* the category a suggestion speaks of
CategoryOf(suggestion) ==
  CHOOSE c \in Categories : suggestion[1][1] = SuggestionOf(c)

\* the strategies a suggestion names: the joined ones of the learning style,
\* the drawn one of the other categories
NamedStrategies(suggestion) ==
  IF CategoryOf(suggestion) = "style"
  THEN {suggestion[2][i] : i \in DOMAIN suggestion[2]}
  ELSE {suggestion[2]}

\* the 'type' of the breakdown entry of a category
BreakdownType(category) ==
  CASE category = "time" -> "time_management"
    [] category = "style" -> "learning_style"
    [] category = "behavior" -> "behavioral"
    [] OTHER -> "subject_specific"

(***************************************************************************)
(* C21: every suggestion of a returned evaluation names exactly one        *)
(* strategy, and that strategy is in the list of the suggestion's category *)
(* under the scenario's value for the category.                            *)
(***************************************************************************)
C21_SuggestionNamesOneStrategy ==
  EvaluatedWellFormed =>
    \A i \in DOMAIN out.val.suggestions :
      LET named == NamedStrategies(out.val.suggestions[i])
          listed == StrategiesOf(CategoryOf(out.val.suggestions[i]), out.arg[2])
      IN  /\ Cardinality(named) = 1
          /\ named \subseteq {listed[j] : j \in DOMAIN listed}

(***************************************************************************)
(* C22: a returned evaluation has one breakdown entry for each of the four *)
(* categories, and the explanation of a category's entry is the category's *)
(* own explanation where the category was missed and empty where it was    *)
(* matched.                                                                *)
(***************************************************************************)
C22_BreakdownPerCategory ==
  EvaluatedWellFormed =>
    LET entries == out.val.identified_strategies
        matched == MatchedCategories(out.arg[1], out.arg[2])
    IN  /\ Len(entries) = 4
        /\ \A c \in Categories :
             \E i \in DOMAIN entries :
               /\ entries[i].type = BreakdownType(c)
               /\ \A j \in DOMAIN entries : entries[j].type = BreakdownType(c) => j = i
               /\ entries[i].explanation =
                    IF c \in matched THEN <<>> ELSE ExplanationOf(c, out.arg[2])

(***************************************************************************)
(* C23: the deltas a returned evaluation gives for engagement,             *)
(* understanding and mood are each half of its score.                      *)
(***************************************************************************)
C23_DeltasAreHalfScore ==
  EvaluatedWellFormed =>
    /\ out.ok
    /\ 2 * out.val.state_changes.engagement = out.val.score
    /\ 2 * out.val.state_changes.understanding = out.val.score
    /\ 2 * out.val.state_changes.mood = out.val.score

\* an evaluation of score 0.7 whose three deltas are 0.35
C23_Witness ==
  /\ EvaluatedWellFormed
  /\ out.val.score = 70
  /\ out.val.state_changes =
       [engagement |-> 35, understanding |-> 35, mood |-> 35]

(***************************************************************************)
(* KnowledgeManager's other ingestion operations                           *)
(* (src/knowledge_manager.py): add_to_knowledge_base on one file,          *)
(* add_educational_resource, which also fills the in-memory category       *)
(* lists, add_knowledge_file, which validates a file and copies it into    *)
(* the knowledge base directory first, and is_loaded.                      *)
(***************************************************************************)
\* the most chunks the store holds, entries a category list holds, and
\* add_document calls that commit in one behaviour of the manager
MaxStored == 3

MaxEntries == 2

MaxIssued == 4

\* 'Strategy:', the marker validate_knowledge_file looks for, as one character
StrategyMark == "S"

\* the files the manager is asked to add
\* two sections, the second one empty
lesson == File("lesson.txt", ".txt", FALSE, <<"S", "\n", "\n">>, JNull, <<>>)

note == File("note.txt", ".txt", FALSE, <<"a">>, JNull, <<>>)

plan == File("plan.json", ".json", FALSE, <<>>,
             JDict(<< <<<<"k">>, JStr(<<"a">>)>> >>), <<>>)

strategies ==
  File("strategies.json", ".json", FALSE, <<>>,
       JDict(<< <<<<"c">>,
                  JDict(<< <<<<"s">>,
                             JDict(<< <<<<"strategies">>,
                                        JList(<<JStr(<<"a">>)>>)>> >>)>> >>)>> >>),
       <<>>)

broken == File("broken.json", ".json", TRUE, <<>>, JNull, <<>>)

database == File("knowledge.db", ".db", FALSE, <<>>, JNull, <<>>)

ResourceFiles == {lesson, note, plan, strategies, broken}

\* the categories the callers name
ResourceCategories == {"teaching_strategies"}

\* what the knowledge base directory holds when the manager is constructed
InitialDirectories == { {}, {note, database} }

\* f"{category}_{source_path.stem}{source_path.suffix}"
TargetName(category, name) ==
  CASE category = "teaching_strategies" /\ name = "lesson.txt" ->
         "teaching_strategies_lesson.txt"
    [] category = "teaching_strategies" /\ name = "strategies.json" ->
         "teaching_strategies_strategies.json"
    [] OTHER -> "category_file"

\* _process_json_data(data, category, source): the texts it appends to the
\* category list, one add_to_knowledge_base(source) call before each
RECURSIVE ProcessJsonData(_)
ProcessJsonData(data) ==
  LET RECURSIVE Items(_)
      Items(i) ==
        IF i > Len(data.items) THEN <<>>
        ELSE (IF data.t = "dict"
              THEN (IF IsChunkScalar(data.items[i][2])
                    THEN <<data.items[i][1] \o <<":", " ">> \o StrOf(data.items[i][2])>>
                    ELSE ProcessJsonData(data.items[i][2]))
              ELSE ProcessJsonData(data.items[i]))
             \o Items(i + 1)
  IN  IF data.t \in {"dict", "list"} THEN Items(1) ELSE <<>>

\* the texts add_educational_resource appends for a file, by extension
ResourceTexts(file) ==
  CASE file.suffix = ".txt" -> SplitSections(file.text)
    [] file.suffix = ".json" -> ProcessJsonData(file.data)
    [] OTHER -> <<>>

\* docs, n times over
RECURSIVE Repeat(_, _)
Repeat(docs, n) == IF n = 0 THEN <<>> ELSE docs \o Repeat(docs, n - 1)

\* the drafts add_educational_resource stores: add_to_knowledge_base(file_path)
\* runs inside the loop over the texts, and each run stores every draft
ResourceDocuments(file) == Repeat(extract_text(file), Len(ResourceTexts(file)))

\* validate_knowledge_file(file_path)
ValidateKnowledgeFile(file) ==
  CASE file.corrupt -> FALSE
    [] file.suffix = ".json" ->
         /\ file.data.t = "dict"
         /\ \A i \in DOMAIN file.data.items :
              LET content == file.data.items[i][2]
              IN  /\ content.t = "dict"
                  /\ \A j \in DOMAIN content.items :
                       LET items == content.items[j][2]
                       IN  /\ items.t = "dict"
                           /\ \E n \in DOMAIN items.items :
                                /\ items.items[n][1] = <<"strategies">>
                                /\ items.items[n][2].t = "list"
    [] file.suffix = ".txt" ->
         LET sections == SplitSections(file.text)
         IN  \A i \in DOMAIN sections :
               Strip(sections[i]) # <<>> =>
                 \E n \in DOMAIN sections[i] : sections[i][n] = StrategyMark
    [] OTHER -> FALSE

\* is_loaded(): any(len(items) > 0 for items in self.categories.values())
is_loaded == \E c \in DOMAIN categories : Len(categories[c]) > 0

\* add_document for each draft in turn, on the manager's connection
StoreDocuments(docs) ==
  LET db == AddDocuments(ReadView, docs)
      first == NextRowId(documents)
      ids == [i \in DOMAIN docs |-> first + i - 1]
  IN  /\ documents' = db.documents
      /\ embeddings' = db.embeddings
      /\ issued' = issued \o ids
      /\ added' = [id \in {ids[i] : i \in DOMAIN ids} |->
                     ChunkOfDocument(docs[id - first + 1])] @@ added

\* the manager is between calls and there is room for n more chunks
ManagerReady(n) ==
  /\ batch.state # "running"
  /\ lock = "none"
  /\ Cardinality(DOMAIN documents) + n <= MaxStored
  /\ Len(issued) + n <= MaxIssued

\* add_to_knowledge_base(file_path), called on its own
AddToKnowledgeBase(file) ==
  /\ ManagerReady(Len(extract_text(file)))
  /\ StoreDocuments(extract_text(file))
  /\ out' = [op |-> "add_to_knowledge_base", ok |-> TRUE, at |-> "",
             val |-> extract_text(file), arg |-> <<file>>]
  /\ UNCHANGED <<lock, pc, tx, arg, doc_id, rng, current_scenario, batch,
                 categories, directory, processor, ollama, bot, simulator>>

\* the body of add_educational_resource(file_path, category): open and
\* json.load are not guarded, so an unreadable file raises
EducationalResource(file, category, op, caller_arg) ==
  IF file.corrupt /\ file.suffix \in {".txt", ".json"}
  THEN /\ out' = [op |-> op, ok |-> FALSE, at |-> "Exception", val |-> <<>>,
                  arg |-> caller_arg]
       /\ UNCHANGED <<documents, embeddings, issued, added, categories>>
  ELSE /\ StoreDocuments(ResourceDocuments(file))
       /\ categories' = [categories EXCEPT ![category] = @ \o ResourceTexts(file)]
       /\ out' = [op |-> op, ok |-> TRUE, at |-> "",
                  val |-> ResourceDocuments(file), arg |-> caller_arg]

\* add_educational_resource(file_path, category)
AddEducationalResource(file, category) ==
  /\ ManagerReady(Len(ResourceDocuments(file)))
  /\ Len(categories[category]) + Len(ResourceTexts(file)) <= MaxEntries
  /\ EducationalResource(file, category, "add_educational_resource",
                         <<file, category>>)
  /\ UNCHANGED <<lock, pc, tx, arg, doc_id, rng, current_scenario, batch,
                 directory, processor, ollama, bot, simulator>>

\* add_knowledge_file(file_path, category): validate, copy into the
\* directory under the category's name, then add_educational_resource on
\* the copy
AddKnowledgeFile(file, category) ==
  LET target == [file EXCEPT !.name = TargetName(category, file.name)]
  IN  /\ ManagerReady(Len(ResourceDocuments(file)))
      /\ Len(categories[category]) + Len(ResourceTexts(file)) <= MaxEntries
      /\ IF ~ValidateKnowledgeFile(file)
         THEN /\ out' = [op |-> "add_knowledge_file", ok |-> TRUE, at |-> "",
                         val |-> <<>>, arg |-> <<file, category>>]
              /\ UNCHANGED <<documents, embeddings, issued, added, categories,
                             directory>>
         ELSE /\ Cardinality({f \in directory : f.name # target.name}) < MaxFiles
              /\ directory' = {f \in directory : f.name # target.name} \cup {target}
              /\ EducationalResource(target, category, "add_knowledge_file",
                                     <<file, category>>)
      /\ UNCHANGED <<lock, pc, tx, arg, doc_id, rng, current_scenario, batch,
                     processor, ollama, bot, simulator>>

\* knowledge_base_dir.glob('*.*') over a directory: its files in any order
OrderingsOf(files) ==
  {l \in [1 .. Cardinality(files) -> files] :
     \A i, j \in DOMAIN l : i # j => l[i] # l[j]}

\* the drafts of the files of a listing, the database file skipped
RECURSIVE DocumentsOfListing(_)
DocumentsOfListing(listing) ==
  IF listing = <<>> THEN <<>>
  ELSE (IF Head(listing).name = "knowledge.db" THEN <<>>
        ELSE extract_text(Head(listing)))
       \o DocumentsOfListing(Tail(listing))

\* a manager beside an empty store, its lists empty
InitManager ==
  /\ documents = <<>>
  /\ embeddings = <<>>
  /\ lock = "none"
  /\ pc = [p \in Procs |-> "idle"]
  /\ tx = [p \in Procs |-> NoTx]
  /\ arg = [p \in Procs |-> NoArg]
  /\ doc_id = [p \in Procs |-> 0]
  /\ issued = <<>>
  /\ added = <<>>
  /\ out = NoOut
  /\ rng = 0
  /\ current_scenario = NoScenario
  /\ batch = NoBatch
  /\ categories = NoCategories
  /\ directory \in InitialDirectories
  /\ processor = NoProcessor
  /\ ollama = "stopped"
  /\ bot = NoBot
  /\ simulator = NoSimulator

NextManager ==
  \/ \E f \in ResourceFiles : AddToKnowledgeBase(f)
  \/ \E f \in ResourceFiles, c \in ResourceCategories : AddEducationalResource(f, c)
  \/ \E f \in ResourceFiles, c \in ResourceCategories : AddKnowledgeFile(f, c)
  \/ \E l \in OrderingsOf(directory) :
       /\ Len(issued) + Len(DocumentsOfListing(l)) <= MaxIssued
       /\ ProcessAllFilesBegin(l)
       /\ UNCHANGED componentVars
  \/ ProcessNextFile /\ UNCHANGED componentVars
  \/ ProcessAllFilesEnd /\ UNCHANGED componentVars

SpecManager == InitManager /\ [][NextManager]_vars

(***************************************************************************)
(* Vocabulary of the claims about the manager.                             *)
(***************************************************************************)
\* the stored chunks whose source is the file of that name
StoredFrom(tbl, name) == {id \in DOMAIN tbl : tbl[id].source = name}

\* what the store keeps of a draft
Kept(doc) ==
  [content |-> doc.content, source |-> ChunkOfDocument(doc).source,
   chunk_type |-> ChunkOfDocument(doc).chunk_type]

\* how many rows of the table keep the draft
TimesStored(tbl, doc) ==
  Cardinality({id \in DOMAIN tbl :
                 /\ tbl[id].content = Kept(doc).content
                 /\ tbl[id].source = Kept(doc).source
                 /\ tbl[id].chunk_type = Kept(doc).chunk_type})

\* how many of the drafts are equal, in what the store keeps, to the draft
TimesExtracted(docs, doc) ==
  Cardinality({i \in DOMAIN docs : Kept(docs[i]) = Kept(doc)})

\* the drafts of every file of the directory, in some order of the files
DocumentsOfDirectory ==
  DocumentsOfListing(CHOOSE l \in OrderingsOf(directory) : TRUE)

(***************************************************************************)
(* C24: a call of add_educational_resource that returns leaves in the      *)
(* store, for its file, as many more chunks as the extraction of the file  *)
(* yields: each extracted chunk is stored once.                            *)
(***************************************************************************)
C24_ResourceStoredOnce ==
  [][(out'.op = "add_educational_resource" /\ out'.ok) =>
       Cardinality(StoredFrom(documents', out'.arg[1].name))
         - Cardinality(StoredFrom(documents, out'.arg[1].name))
       = Len(extract_text(out'.arg[1]))]_vars

(***************************************************************************)
(* C25: when process_all_files returns, the store holds exactly the chunks *)
(* extracted from the files of the directory, each as often as it was      *)
(* extracted, whatever the store held before; so a second run over the     *)
(* same directory leaves what the first left.                              *)
(***************************************************************************)
C25_BatchReplacesStore ==
  out.op = "process_all_files" =>
    /\ Cardinality(DOMAIN documents) = Len(DocumentsOfDirectory)
    /\ \A i \in DOMAIN DocumentsOfDirectory :
         TimesStored(documents, DocumentsOfDirectory[i])
           = TimesExtracted(DocumentsOfDirectory, DocumentsOfDirectory[i])

\* two chunks added by hand, then two runs over a directory that yields one
\* chunk: the ids restart at 1 after each clear
C25_Witness ==
  /\ out.op = "process_all_files"
  /\ issued = <<1, 2, 1, 1>>
  /\ Cardinality(DOMAIN documents) = 1

(***************************************************************************)
(* C26: between the manager's ingestion operations, is_loaded() is true    *)
(* exactly when the store holds at least one chunk.                        *)
(***************************************************************************)
C26_LoadedIffStoreNonEmpty ==
  (/\ out.op \in {"add_to_knowledge_base", "add_educational_resource",
                  "add_knowledge_file", "process_all_files"}
   /\ batch.state # "running")
    => (is_loaded <=> documents # <<>>)

(***************************************************************************)
(* KnowledgeProcessor's in-memory knowledge base                           *)
(* (src/knowledge_processor.py): _add_to_knowledge_base embeds each text,  *)
(* adds the vector to the index, appends the document and updates the      *)
(* summary; _process_file calls it and swallows what it raises.            *)
(***************************************************************************)
\* the most documents the processor holds
MaxProcessorDocuments == 3

\* len(word)
WordLength(word) ==
  CASE word = "scaffolding" -> 11
    [] word = "praise" -> 6
    [] word = "plan" -> 4
    [] OTHER -> 1

\* len(text) of words joined by single blanks
RECURSIVE TextLength(_)
TextLength(text) ==
  IF text = <<>> THEN 0
  ELSE IF Len(text) = 1 THEN WordLength(text[1])
  ELSE WordLength(Head(text)) + 1 + TextLength(Tail(text))

\* the texts a file is processed into; the second is of example length
ProcessorTexts ==
  { <<"praise", "plan">>,
    <<"scaffolding", "scaffolding", "scaffolding", "scaffolding", "scaffolding">> }

\* the lists of texts of one file
ProcessorContents ==
  {c \in UNION {[1 .. n -> ProcessorTexts] : n \in 1 .. 2} :
     \A i, j \in DOMAIN c : i # j => c[i] # c[j]}

ProcessorCategories == {"strategies", "behavior"}

\* where a call fails: nowhere, or at the i-th text in encode or in index.add
ProcessorFailures ==
  {[i |-> 0, step |-> "none"]}
  \cup {[i |-> i, step |-> step] : i \in 1 .. 2, step \in {"encode", "index"}}

\* d.get(key, 0) + 1 stored under key
Incremented(d, key) ==
  (key :> ((IF key \in DOMAIN d THEN d[key] ELSE 0) + 1)) @@ d

\* for word in words: if len(word) > 4: key_concepts[word] += 1
RECURSIVE KeyConcepts(_, _)
KeyConcepts(d, words) ==
  IF words = <<>> THEN d
  ELSE KeyConcepts(IF WordLength(Head(words)) > 4
                   THEN Incremented(d, Lower(Head(words))) ELSE d,
                   Tail(words))

\* the first text of example length of a category is kept as its example
Examples(d, category, text) ==
  IF TextLength(text) > 50 /\ TextLength(text) < 200 /\ category \notin DOMAIN d
  THEN (category :> text) @@ d
  ELSE d

\* a failed index.add that leaves its vector in the index
RaisedAtVectorKept(p, text, step) ==
  IF step = "index" THEN [p EXCEPT !.index = Append(@, EncodeWords(text))] ELSE p

\* encode or index.add raised at a text: nothing of the text was added
RaisedAt(p, text, step) == p

\* one turn of the loop that ran to its end
AddText(p, text, category, source) ==
  [index |-> Append(p.index, EncodeWords(text)),
   documents |-> Append(p.documents,
                        [text |-> text, category |-> category, source |-> source]),
   knowledge_summary |->
     [total_documents |-> p.knowledge_summary.total_documents + 1,
      categories |-> Incremented(p.knowledge_summary.categories, category),
      key_concepts |-> KeyConcepts(p.knowledge_summary.key_concepts, text),
      examples |-> Examples(p.knowledge_summary.examples, category, text)]]

\* _add_to_knowledge_base(content, category, source) from the i-th text on:
\* the processor it leaves and whether it raised
RECURSIVE AddTexts(_, _, _, _, _, _)
AddTexts(p, content, category, source, fail, i) ==
  IF i > Len(content) THEN [processor |-> p, raised |-> FALSE]
  ELSE IF fail.i = i
  THEN [processor |-> RaisedAt(p, content[i], fail.step), raised |-> TRUE]
  ELSE AddTexts(AddText(p, content[i], category, source), content, category,
                source, fail, i + 1)

\* _add_to_knowledge_base(content, category, source), called on its own
ProcessorAddToKnowledgeBase(content, category, source, fail) ==
  LET r == AddTexts(processor, content, category, source, fail, 1)
  IN  /\ Len(processor.documents) + Len(content) <= MaxProcessorDocuments
      /\ fail.i <= Len(content)
      /\ processor' = r.processor
      /\ out' = [op |-> "_add_to_knowledge_base", ok |-> ~r.raised,
                 at |-> IF r.raised THEN "Exception" ELSE "",
                 val |-> <<>>, arg |-> <<content, category, source, fail>>]
      /\ UNCHANGED <<storeVars, rng, current_scenario, batch, categories,
                     directory, ollama, bot, simulator>>

\* _process_file(file_path, category): the texts the file was read into go
\* to _add_to_knowledge_base unless there are none, and whatever is raised is
\* printed
ProcessFile(content, category, source, fail) ==
  LET r == IF content = <<>> THEN [processor |-> processor, raised |-> FALSE]
           ELSE AddTexts(processor, content, category, source, fail, 1)
  IN  /\ Len(processor.documents) + Len(content) <= MaxProcessorDocuments
      /\ fail.i <= Len(content)
      /\ processor' = r.processor
      /\ out' = [op |-> "_process_file", ok |-> TRUE, at |-> "", val |-> <<>>,
                 arg |-> <<content, category, source, fail>>]
      /\ UNCHANGED <<storeVars, rng, current_scenario, batch, categories,
                     directory, ollama, bot, simulator>>

NextProcessor ==
  \/ \E content \in ProcessorContents, category \in ProcessorCategories,
        fail \in ProcessorFailures :
       ProcessorAddToKnowledgeBase(content, category, "notes.txt", fail)
  \/ \E content \in ProcessorContents \cup {<<>>},
        category \in ProcessorCategories, fail \in ProcessorFailures :
       ProcessFile(content, category, "plan.json", fail)

SpecProcessor == Init /\ [][NextProcessor]_vars

\* the sum of the per-category counts
RECURSIVE SumOfCounts(_)
SumOfCounts(d) ==
  IF DOMAIN d = {} THEN 0
  ELSE LET k == CHOOSE k \in DOMAIN d : TRUE
       IN  d[k] + SumOfCounts([x \in (DOMAIN d) \ {k} |-> d[x]])

(***************************************************************************)
(* C27: after every call of _add_to_knowledge_base, also one that failed   *)
(* part-way through its texts, the index holds as many vectors as there    *)
(* are documents, total_documents and the sum of the per-category counts   *)
(* are that number too, and the i-th vector is the embedding of the i-th   *)
(* document.                                                               *)
(***************************************************************************)
C27_IndexMatchesDocuments ==
  /\ Len(processor.index) = Len(processor.documents)
  /\ processor.knowledge_summary.total_documents = Len(processor.documents)
  /\ SumOfCounts(processor.knowledge_summary.categories) = Len(processor.documents)
  /\ \A i \in DOMAIN processor.documents :
       processor.index[i] = EncodeWords(processor.documents[i].text)

\* a call that failed in index.add at its second text, after an earlier call
\* had added a document
C27_Witness ==
  /\ out.op = "_add_to_knowledge_base"
  /\ ~out.ok
  /\ out.arg[4] = [i |-> 2, step |-> "index"]
  /\ Len(processor.documents) = 2
  /\ processor.documents[2].text = out.arg[1][1]

(***************************************************************************)
(* PedagogicalLanguageProcessor (src/llm_handler.py): the evaluation of a  *)
(* teaching response by the local language model server, with its          *)
(* fallbacks.  Scores are in hundredths.                                   *)
(***************************************************************************)
\* a JSON number with a fraction, in hundredths
JFloat(h) == [t |-> "float", v |-> h]

\* parsed_result.get(key): the value, or None
Get(d, key) ==
  IF \E i \in DOMAIN d.items : d.items[i][1] = key
  THEN d.items[CHOOSE i \in DOMAIN d.items : d.items[i][1] = key][2]
  ELSE JNull

\* float(value) of a value that passed isinstance(value, (int, float))
FloatOf(value) ==
  CASE value.t = "int" -> 100 * value.v
    [] value.t = "bool" -> IF value.v THEN 100 ELSE 0
    [] OTHER -> value.v

\* _get_fallback_evaluation()
fallback_evaluation ==
  [score |-> 50,
   strengths |-> << <<"Response provided basic teaching interaction">> >>,
   suggestions |-> << <<"Consider adding more specific teaching strategies">> >>,
   explanation |-> <<"Basic evaluation provided due to processing limitations">>]

\* the defaults a parsed reply is laid over
valid_result ==
  [score |-> 50,
   strengths |-> << <<"Basic teaching approach">> >>,
   suggestions |-> << <<"Consider adding more specific strategies">> >>,
   explanation |-> <<"Basic evaluation provided">>]

\* [str(s) for s in value] for a list, [value] for a string, else the default
ListOr(value, default) ==
  CASE value.t = "list" -> [i \in DOMAIN value.items |-> StrOf(value.items[i])]
    [] value.t = "str" -> <<value.v>>
    [] OTHER -> default

\* the result built from a parsed JSON object
ValidResult(parsed_result) ==
  [score |-> IF Get(parsed_result, <<"score">>).t \in {"int", "float", "bool"}
             THEN FloatOf(Get(parsed_result, <<"score">>))
             ELSE valid_result.score,
   strengths |-> ListOr(Get(parsed_result, <<"strengths">>), valid_result.strengths),
   suggestions |-> ListOr(Get(parsed_result, <<"suggestions">>),
                          valid_result.suggestions),
   explanation |-> IF Get(parsed_result, <<"explanation">>).t = "str"
                   THEN Get(parsed_result, <<"explanation">>).v
                   ELSE valid_result.explanation]

positive_words ==
  {"good", "great", "excellent", "effective", "well", "clear", "appropriate"}

negative_words ==
  {"improve", "consider", "should", "could", "better", "unclear", "missing"}

\* the words of a line, or of every line of a text, in lower case
WordsOfLine(line) == {Lower(line[i]) : i \in DOMAIN line}

WordsOfText(lines) == UNION {WordsOfLine(lines[i]) : i \in DOMAIN lines}

Max2(a, b) == IF a >= b THEN a ELSE b

\* score = max(0.1, min(1.0, 0.5 + 0.1 * positives - 0.1 * negatives))
HeuristicScore(lines) ==
  Max2(10, Min2(100, 50 + (10 * Cardinality(positive_words \cap WordsOfText(lines)))
                        - (10 * Cardinality(negative_words \cap WordsOfText(lines)))))

\* the lines that go to the strengths (kind "strength") or to the suggestions
RECURSIVE LinesOfKind(_, _)
LinesOfKind(lines, kind) ==
  IF lines = <<>> THEN <<>>
  ELSE LET words == WordsOfLine(Head(lines))
           is == IF words \cap positive_words # {} THEN "strength"
                 ELSE IF words \cap negative_words # {} THEN "suggestion"
                 ELSE IF words \cap {"strength", "positive"} # {} THEN "strength"
                 ELSE IF words \cap {"suggest", "improve"} # {} THEN "suggestion"
                 ELSE "neither"
       IN  (IF is = kind THEN <<Head(lines)>> ELSE <<>>)
           \o LinesOfKind(Tail(lines), kind)

\* _structure_free_text_response(text): the lines are those that are not
\* blank
StructureFreeTextResponse(lines) ==
  [score |-> HeuristicScore(lines),
   strengths |-> IF LinesOfKind(lines, "strength") # <<>>
                 THEN LinesOfKind(lines, "strength")
                 ELSE << <<"Basic teaching elements present">> >>,
   suggestions |-> IF LinesOfKind(lines, "suggestion") # <<>>
                   THEN LinesOfKind(lines, "suggestion")
                   ELSE << <<"Consider adding more specific strategies">> >>,
   explanation |-> lines]

\* free text the model answers with, as lines of words
FreeText(lines) == [t |-> "text", lines |-> lines]

\* what json.loads is given after the cleaning: the code fences are removed,
\* and re.findall(r'(\{[\s\S]*\})') cuts the text from the first brace to the
\* last, which frees an object from prose around it and from a list of one
\* object; anything else in prose stays prose
Cleaned(reply) ==
  CASE reply.body.t = "dict" -> reply.body
    [] reply.body.t = "list" /\ Len(reply.body.items) = 1
         /\ reply.body.items[1].t = "dict" -> reply.body.items[1]
    [] reply.body.t = "text" -> reply.body
    [] reply.body.t = "str" -> FreeText(<<reply.body.v>>)
    [] reply.wrap = "prose" -> FreeText(<< <<"Here", "is", "my", "evaluation">> >>)
    [] OTHER -> reply.body

\* a call that ended in an exception
Raised(exception) == [raised |-> TRUE, at |-> exception, val |-> <<>>]

\* a call that returned val
Result(val) == [raised |-> FALSE, at |-> "", val |-> val]

\* the inner try block: json.loads, then the result laid over the defaults;
\* except json.JSONDecodeError: the free-text heuristic
InnerTry(reply) ==
  CASE Cleaned(reply).t = "text" -> Result(StructureFreeTextResponse(Cleaned(reply).lines))
    [] Cleaned(reply).t = "dict" -> Result(ValidResult(Cleaned(reply)))
    [] OTHER -> Raised("AttributeError")

\* the request and what follows it, inside the outer try block
OuterTry(prompt, request) ==
  CASE prompt.t # "str" -> Raised("AttributeError")
    [] request.at = "connection" -> Raised("ConnectionError")
    [] request.at = "timeout" -> Raised("Timeout")
    [] request.at = "status" -> Raised("HTTPError")
    [] request.at = "body" -> Raised("KeyError")
    [] OTHER -> InnerTry(request.reply)

\* an outer handler that catches only what the request raises
OuterExceptRequestOnly(r) ==
  IF r.raised /\ r.at \in {"ConnectionError", "Timeout", "HTTPError"}
  THEN Result(fallback_evaluation) ELSE r

\* except Exception: return self._get_fallback_evaluation()
OuterExcept(r) == IF r.raised THEN Result(fallback_evaluation) ELSE r

\* ensure_server_running(): True where the server answers, or answers within
\* the five checks after 'ollama serve' was started
EnsureServerRunning(server, start) ==
  server = "running" \/ start = "starts"

\* analyze_teaching_response(prompt)
AnalyzeTeachingResponse(prompt, start, request) ==
  LET r == IF ~EnsureServerRunning(ollama, start) THEN Result(fallback_evaluation)
           ELSE OuterExcept(OuterTry(prompt, request))
  IN  /\ ollama' = IF EnsureServerRunning(ollama, start) THEN "running" ELSE ollama
      /\ out' = [op |-> "analyze_teaching_response", ok |-> ~r.raised, at |-> r.at,
                 val |-> r.val, arg |-> <<prompt, start, request>>]
      /\ UNCHANGED <<storeVars, rng, current_scenario, batch, categories,
                     directory, processor, bot, simulator>>

\* the server goes down
ServerStops ==
  /\ ollama = "running"
  /\ ollama' = "stopped"
  /\ out' = NoOut
  /\ UNCHANGED <<storeVars, rng, current_scenario, batch, categories,
                 directory, processor, bot, simulator>>

\* the prompts: a teaching response, an empty one, and no string at all
Prompts == { JStr(<<"Watch", "carefully">>), JStr(<<>>), JNull }

\* what starting the server leads to: it answers, it never answers, or
\* subprocess.Popen raises
Starts == {"starts", "fails", "popen raises"}

\* the JSON objects the model may answer with, by the fields they have
ScoreFields ==
  { <<>>, << <<<<"score">>, JFloat(75)>> >>, << <<<<"score">>, JInt(7)>> >>,
    << <<<<"score">>, JFloat(0 - 50)>> >>, << <<<<"score">>, JBool(TRUE)>> >>,
    << <<<<"score">>, JStr(<<"0.9">>)>> >> }

StrengthsFields ==
  { <<>>, << <<<<"strengths">>, JList(<<JStr(<<"clear">>), JInt(3)>>)>> >>,
    << <<<<"strengths">>, JStr(<<"warm", "tone">>)>> >> }

SuggestionsFields == { <<>>, << <<<<"suggestions">>, JList(<<>>)>> >> }

ExplanationFields ==
  { << <<<<"explanation">>, JStr(<<"Well", "paced">>)>> >>,
    << <<<<"explanation">>, JInt(1)>> >> }

ReplyObjects ==
  {JDict(<<>>)}
  \cup {JDict(score \o strengths \o explanation) :
          score \in ScoreFields, strengths \in StrengthsFields,
          explanation \in ExplanationFields}
  \cup {JDict(strengths \o suggestions) :
          strengths \in StrengthsFields, suggestions \in SuggestionsFields}

\* the other bodies: JSON that is no object, and free text
OtherBodies ==
  { JList(<<JInt(1)>>), JList(<<JDict(<< <<<<"score">>, JInt(2)>> >>)>>),
    JInt(5), JNull, JBool(TRUE), JStr(<<"good">>),
    FreeText(<<>>),
    FreeText(<< <<"Good", "and", "clear">>, <<"could", "improve">> >>),
    FreeText(<< <<"good", "great", "excellent", "effective", "well", "clear">> >>),
    FreeText(<< <<"improve", "consider", "should", "could", "better">>,
                <<"a", "positive", "note">> >>) }

\* a reply: bare, inside a code fence, or with prose around it
Replies ==
  {[wrap |-> "none", body |-> b] : b \in ReplyObjects \cup OtherBodies}
  \cup {[wrap |-> w, body |-> b] :
          w \in {"fence", "prose"},
          b \in OtherBodies \cup {JDict(<< <<<<"score">>, JFloat(75)>> >>)}}

\* what the request to the server comes to
Requests ==
  {[at |-> a, reply |-> [wrap |-> "none", body |-> JNull]] :
     a \in {"connection", "timeout", "status", "body"}}
  \cup {[at |-> "", reply |-> r] : r \in Replies}

NextLLM ==
  \/ \E prompt \in Prompts, start \in Starts, request \in Requests :
       AnalyzeTeachingResponse(prompt, start, request)
  \/ ServerStops

SpecLLM == Init /\ [][NextLLM]_vars

\* a call of analyze_teaching_response has ended
Analyzed == out.op = "analyze_teaching_response"

(***************************************************************************)
(* C28: analyze_teaching_response never raises and returns a dictionary    *)
(* with exactly the keys score, strengths, suggestions and explanation,    *)
(* whatever the server does: down and not startable, a failed or timed-out *)
(* request, a reply that is no JSON, JSON that is no object, an object     *)
(* that lacks keys.                                                        *)
(***************************************************************************)
C28_AnalyzeAlwaysReturnsFourKeys ==
  Analyzed =>
    /\ out.ok
    /\ DOMAIN out.val = {"score", "strengths", "suggestions", "explanation"}

\* the server answered with JSON that is no object, and the call returned
\* the fallback evaluation
C28_Witness ==
  /\ Analyzed
  /\ out.arg[3].at = ""
  /\ out.arg[3].reply = [wrap |-> "none", body |-> JInt(5)]
  /\ out.arg[1].t = "str"
  /\ out.val = fallback_evaluation

(***************************************************************************)
(* C29: the score of every result of analyze_teaching_response is between  *)
(* 0 and 1: the fallback's, the free-text heuristic's, and the one taken   *)
(* from a parsed reply.                                                    *)
(***************************************************************************)
C29_ScoreInUnitInterval ==
  (Analyzed /\ out.ok) => (0 <= out.val.score /\ out.val.score <= 100)

(***************************************************************************)
(* TeacherTrainingBot and its StudentSimulator                             *)
(* (src/src/ai/teacher_training_bot.py, src/src/ai/student_simulator.py,   *)
(* src/src/ai/llm_handler.py): start_scenario picks a student and a        *)
(* scenario, evaluate_response asks the simulator for a reaction and the   *)
(* language model for feedback and keeps both in feedback_history.         *)
(***************************************************************************)
\* the most entries of feedback_history, and of conversation_history
MaxFeedback == 2

\* student_profiles["student_profiles"]
student_profiles == << [name |-> "Ava"], [name |-> "Ben"] >>

\* conversations["teaching_scenarios"]
teaching_scenarios ==
  << [id |-> "s1", scenario |-> "a student hums during reading",
      teaching_objectives |-> <<"redirect">>],
     [id |-> "s2", scenario |-> "a student gives up on a sum",
      teaching_objectives |-> <<"encourage">>] >>

\* the ids a caller asks for: two that exist, one that does not, the empty one
ScenarioIds == {"s1", "s2", "s9", ""}

\* set_scenario(scenario_id): the first scenario of that id, or what was set
SetScenario(current, scenario_id) ==
  IF \E i \in DOMAIN teaching_scenarios : teaching_scenarios[i].id = scenario_id
  THEN teaching_scenarios[CHOOSE i \in DOMAIN teaching_scenarios :
         /\ teaching_scenarios[i].id = scenario_id
         /\ \A j \in 1 .. (i - 1) : teaching_scenarios[j].id # scenario_id]
  ELSE current

\* start_scenario(scenario_id)
StartScenario(scenario_id) ==
  /\ simulator' = [current_student |-> RandomChoice(rng, student_profiles),
                   current_scenario |-> SetScenario(simulator.current_scenario,
                                                    scenario_id),
                   conversation_history |-> <<>>]
  /\ rng' = Advance(rng)
  /\ bot' = [bot EXCEPT !.current_scenario = PyStr(scenario_id)]
  /\ out' = [op |-> "start_scenario", ok |-> TRUE, at |-> "",
             val |-> [student |-> simulator'.current_student,
                      scenario |-> simulator'.current_scenario],
             arg |-> <<scenario_id>>]
  /\ UNCHANGED <<storeVars, current_scenario, batch, categories, directory,
                 processor, ollama>>

\* not self.current_scenario: None and the empty id are both false
NoActiveScenario ==
  bot.current_scenario = None \/ bot.current_scenario = PyStr("")

\* generate_student_response: the model's text, or the canned line where the
\* model raised
StudentResponse(llm_student) ==
  IF llm_student = "ok" THEN "generated" ELSE "I'm not sure how to respond to that."

\* evaluate_teacher_response, after the prompt was built: the parsed JSON, or
\* the fallback where the model raised or wrote no JSON
Feedback(llm_feedback) ==
  IF llm_feedback = "json" THEN "parsed" ELSE "fallback"

\* TeacherTrainingBot.evaluate_response(teacher_response)
BotEvaluateResponse(teacher_response, llm_student, llm_feedback) ==
  LET ready == simulator.current_student # None /\ simulator.current_scenario # None
      student_reaction ==
        IF ready THEN StudentResponse(llm_student)
        ELSE "Error: Please select a student and scenario first."
  IN  /\ Len(bot.feedback_history) < MaxFeedback
      /\ IF NoActiveScenario
         THEN /\ out' = [op |-> "bot.evaluate_response", ok |-> TRUE, at |-> "",
                         val |-> [error |-> "No active scenario"],
                         arg |-> <<teacher_response>>]
              /\ UNCHANGED <<bot, simulator>>
         ELSE IF simulator.current_scenario = None
         THEN \* _create_evaluation_prompt subscripts None, outside the try
              /\ out' = [op |-> "bot.evaluate_response", ok |-> FALSE,
                         at |-> "TypeError", val |-> <<>>,
                         arg |-> <<teacher_response>>]
              /\ UNCHANGED <<bot, simulator>>
         ELSE /\ simulator' =
                   [simulator EXCEPT !.conversation_history =
                      Append(@, [teacher |-> teacher_response,
                                 student |-> student_reaction])]
              /\ bot' = [bot EXCEPT !.feedback_history =
                           Append(@, [teacher_response |-> teacher_response,
                                      student_reaction |-> student_reaction,
                                      feedback |-> Feedback(llm_feedback)])]
              /\ out' = [op |-> "bot.evaluate_response", ok |-> TRUE, at |-> "",
                         val |-> [student_reaction |-> student_reaction,
                                  feedback |-> Feedback(llm_feedback)],
                         arg |-> <<teacher_response>>]
      /\ UNCHANGED <<storeVars, rng, current_scenario, batch, categories,
                     directory, processor, ollama>>

\* what the teacher answers
TeacherResponses == {"Let's read together", "Stop that"}

NextBot ==
  \/ \E scenario_id \in ScenarioIds : StartScenario(scenario_id)
  \/ \E teacher_response \in TeacherResponses, llm_student \in {"ok", "raises"},
        llm_feedback \in {"json", "no json", "raises"} :
       BotEvaluateResponse(teacher_response, llm_student, llm_feedback)

SpecBot == Init /\ [][NextBot]_vars

(***************************************************************************)
(* C30: after every step, where the bot's current_scenario holds an id the *)
(* simulator's current scenario is the scenario of that id, also after     *)
(* start_scenario with an id no scenario has and after a second            *)
(* start_scenario; and evaluate_response appends exactly one entry to      *)
(* feedback_history where a scenario is active and none where it returns   *)
(* the no-active-scenario error.                                           *)
(***************************************************************************)
C30_BotAndSimulatorAgree ==
  [][/\ (bot'.current_scenario # None /\ bot'.current_scenario # PyStr("")) =>
          /\ simulator'.current_scenario # None
          /\ PyStr(simulator'.current_scenario.id) = bot'.current_scenario
     /\ out'.op = "bot.evaluate_response" =>
          Len(bot'.feedback_history) - Len(bot.feedback_history)
            = (IF "error" \in DOMAIN out'.val THEN 0 ELSE 1)]_vars

====
